---- MODULE Spec2Model ----
(***************************************************************************)
(* A model of the web-automation agent: the action schema                  *)
(* (agents/models.py), the intent-to-plan compiler                         *)
(* (agents/intent_parser_v2.py, agents/intent_handlers.py) and the         *)
(* executor with its flight-search flow (Automation/browser_executor.py,   *)
(* Automation/make_my_trip.py).                                            *)
(*                                                                         *)
(* Text is modelled character by character: a Python str is a TLA+ string, *)
(* read with Len, SubSeq and \o.                                           *)
(***************************************************************************)
EXTENDS Integers, Sequences, FiniteSets, TLC

VARIABLES
    pc,           \* position of execute_actions
    actions_data, \* the plan handed to execute_actions (list of records)
    actions,      \* the validated plan (the local `actions`)
    idx,          \* 1-based index of the action the for-loop is at
    log,          \* one entry per action attempted, in order of attempt
    last,         \* what the last runner met: [visible, interacted]
    context,      \* the browser context: "none", "open", "closed"
    url,          \* the page's current URL ("" before the first navigation)
    exc,          \* an exception is propagating out of the try block
    stages,       \* stages entered by the running search_flights, with verdicts
    command,      \* the raw command handed to parse_command
    now,          \* the clock at parse_date's first read: a [y, m, d] record
    later,        \* the clock at parse_date's second read
    cpc,          \* position of parse_command
    intent,       \* what detect_intent returned: [intent, entities]
    plan,         \* what parse_command returned: None or a list of records
    flow          \* the booking stage looked at step by step: position, page, effects

vars == <<pc, actions_data, actions, idx, log, last, context, url, exc, stages,
          command, now, later, cpc, intent, plan, flow>>

execVars == <<pc, actions_data, actions, idx, log, last, context, url, exc, stages>>
compVars == <<command, now, later, cpc, intent, plan>>
flowVars == <<flow>>

\* Python's None where a str is expected (no text of the model contains "<")
None == "<None>"

------------------------------------------------------------------------------
(* Bounds of the model.                                                     *)

MaxPlanLen == 3

------------------------------------------------------------------------------
(* Python str operations.                                                   *)

CharAt(s, i) == SubSeq(s, i, i)

startswith(s, p) == Len(s) >= Len(p) /\ SubSeq(s, 1, Len(p)) = p

endswith(s, p) == Len(s) >= Len(p) /\ SubSeq(s, Len(s) - Len(p) + 1, Len(s)) = p

\* `k in s`
Contains(s, k) == \E i \in 1..(Len(s) - Len(k) + 1) : SubSeq(s, i, i + Len(k) - 1) = k

Digits == {"0", "1", "2", "3", "4", "5", "6", "7", "8", "9"}

LowerLetters == {"a", "b", "c", "d", "e", "f", "g", "h", "i", "j", "k", "l", "m",
                 "n", "o", "p", "q", "r", "s", "t", "u", "v", "w", "x", "y", "z"}

UpperLetters == {"A", "B", "C", "D", "E", "F", "G", "H", "I", "J", "K", "L", "M",
                 "N", "O", "P", "Q", "R", "S", "T", "U", "V", "W", "X", "Y", "Z"}

\* \w of the re module, on the characters the model uses
WordChars == Digits \cup LowerLetters \cup UpperLetters \cup {"_"}

DigitVal == [c \in Digits |->
    CASE c = "0" -> 0 [] c = "1" -> 1 [] c = "2" -> 2 [] c = "3" -> 3 [] c = "4" -> 4
      [] c = "5" -> 5 [] c = "6" -> 6 [] c = "7" -> 7 [] c = "8" -> 8 [] c = "9" -> 9]

AllIn(s, chars) == \A i \in 1..Len(s) : CharAt(s, i) \in chars

RECURSIVE ToInt(_)
ToInt(s) == IF Len(s) = 0 THEN 0
            ELSE 10 * ToInt(SubSeq(s, 1, Len(s) - 1)) + DigitVal[CharAt(s, Len(s))]

Whitespace == {" ", "\t"}

UpperOf == [c \in LowerLetters |->
    CASE c = "a" -> "A" [] c = "b" -> "B" [] c = "c" -> "C" [] c = "d" -> "D"
      [] c = "e" -> "E" [] c = "f" -> "F" [] c = "g" -> "G" [] c = "h" -> "H"
      [] c = "i" -> "I" [] c = "j" -> "J" [] c = "k" -> "K" [] c = "l" -> "L"
      [] c = "m" -> "M" [] c = "n" -> "N" [] c = "o" -> "O" [] c = "p" -> "P"
      [] c = "q" -> "Q" [] c = "r" -> "R" [] c = "s" -> "S" [] c = "t" -> "T"
      [] c = "u" -> "U" [] c = "v" -> "V" [] c = "w" -> "W" [] c = "x" -> "X"
      [] c = "y" -> "Y" [] c = "z" -> "Z"]

LowerChar(c) ==
    IF c \in UpperLetters THEN CHOOSE l \in LowerLetters : UpperOf[l] = c ELSE c

\* str.lower
RECURSIVE lower(_)
lower(s) == IF Len(s) = 0 THEN s ELSE LowerChar(CharAt(s, 1)) \o lower(Tail(s))

RECURSIVE lstrip(_)
lstrip(s) == IF Len(s) > 0 /\ CharAt(s, 1) \in Whitespace THEN lstrip(Tail(s)) ELSE s

RECURSIVE rstrip(_)
rstrip(s) == IF Len(s) > 0 /\ CharAt(s, Len(s)) \in Whitespace
             THEN rstrip(SubSeq(s, 1, Len(s) - 1)) ELSE s

\* str.strip
strip(s) == rstrip(lstrip(s))

\* str.replace(old, new): every occurrence, left to right, without overlap
RECURSIVE replace(_, _, _)
replace(s, old, new) ==
    IF Len(s) < Len(old) \/ Len(old) = 0 THEN s
    ELSE IF startswith(s, old) THEN new \o replace(SubSeq(s, Len(old) + 1, Len(s)), old, new)
    ELSE CharAt(s, 1) \o replace(Tail(s), old, new)

\* s with each of the texts of olds replaced by "", one after the other
RECURSIVE RemoveAll(_, _)
RemoveAll(s, olds) ==
    IF olds = <<>> THEN s ELSE RemoveAll(replace(s, Head(olds), ""), Tail(olds))

\* re.sub(r'\s+', ' ', s)
RECURSIVE CollapseSpaces(_)
CollapseSpaces(s) ==
    IF Len(s) = 0 THEN s
    ELSE IF CharAt(s, 1) \in Whitespace
    THEN " " \o CollapseSpaces(lstrip(s))
    ELSE CharAt(s, 1) \o CollapseSpaces(Tail(s))

\* str(n) for n >= 0
RECURSIVE IntToStr(_)
IntToStr(n) ==
    LET d == CHOOSE c \in Digits : DigitVal[c] = n % 10
    IN  IF n < 10 THEN d ELSE IntToStr(n \div 10) \o d

\* n formatted on at least w digits, padded with zeros (%02d, %04d)
RECURSIVE Pad(_, _)
Pad(t, w) == IF Len(t) >= w THEN t ELSE Pad("0" \o t, w)

------------------------------------------------------------------------------
(* The re module: a backtracking matcher.  A pattern is a sequence of       *)
(* items, tried left to right; the first way of matching that succeeds, in  *)
(* the order in which a backtracking matcher tries them, is the match.      *)
(*   Lit(t)          the text t                                             *)
(*   Alt(ps, g)      (p1|p2|...), alternatives in order; group g (0: none)  *)
(*   Opt(p)          (?:p)?, greedy                                         *)
(*   Rep(c, neg, lo, hi, greedy, g)                                         *)
(*                   lo..hi characters in (neg: not in) the set c; group g  *)

Lit(t) == [t |-> "lit", s |-> t]
Alt(ps, g) == [t |-> "alt", alts |-> ps, cap |-> g]
Opt(p) == [t |-> "opt", p |-> p]
Rep(c, neg, lo, hi, greedy, g) ==
    [t |-> "rep", cls |-> c, neg |-> neg, lo |-> lo, hi |-> hi, greedy |-> greedy, cap |-> g]
EndGroup(g, start) == [t |-> "end", cap |-> g, start |-> start]

Unbounded == 0 - 1

Spaces1 == Rep(Whitespace, FALSE, 1, Unbounded, TRUE, 0)    \* \s+
Spaces0 == Rep(Whitespace, FALSE, 0, Unbounded, TRUE, 0)    \* \s*
LazyGroup(g) == Rep({"\n"}, TRUE, 1, Unbounded, FALSE, g)   \* (.+?)
GreedyGroup(g) == Rep({"\n"}, TRUE, 1, Unbounded, TRUE, g)  \* (.+)
Words(ws) == Alt([i \in 1..Len(ws) |-> <<Lit(ws[i])>>], 0)  \* (?:w1|w2|...)

NoMatch == [ok |-> FALSE]

NoGroups == [g \in 1..3 |-> None]

InClass(c, it) == IF it.neg THEN c \notin it.cls ELSE c \in it.cls

\* the length of the longest run of characters of the item's class at pos
RECURSIVE Run(_, _, _, _)
Run(it, s, pos, n) ==
    IF pos + n <= Len(s) /\ InClass(CharAt(s, pos + n), it) /\ (it.hi < 0 \/ n < it.hi)
    THEN Run(it, s, pos, n + 1)
    ELSE n

SetGroup(caps, g, t) == IF g = 0 THEN caps ELSE [caps EXCEPT ![g] = t]

RECURSIVE Match(_, _, _, _, _)
RECURSIVE MatchAlts(_, _, _, _, _, _, _)
RECURSIVE MatchRep(_, _, _, _, _, _, _, _)

\* the items matched from position pos of s on; ic: re.IGNORECASE
Match(items, s, pos, caps, ic) ==
    IF items = <<>> THEN [ok |-> TRUE, end |-> pos, caps |-> caps]
    ELSE LET it == Head(items)
             rest == Tail(items)
         IN  CASE it.t = "lit" ->
                    LET sub == SubSeq(s, pos, pos + Len(it.s) - 1)
                    IN  IF pos + Len(it.s) - 1 <= Len(s)
                           /\ (IF ic THEN lower(sub) = lower(it.s) ELSE sub = it.s)
                        THEN Match(rest, s, pos + Len(it.s), caps, ic)
                        ELSE NoMatch
               [] it.t = "alt" -> MatchAlts(it, 1, rest, s, pos, caps, ic)
               [] it.t = "opt" ->
                    LET r == Match(it.p \o rest, s, pos, caps, ic)
                    IN  IF r.ok THEN r ELSE Match(rest, s, pos, caps, ic)
               [] it.t = "rep" ->
                    LET most == Run(it, s, pos, 0)
                    IN  IF most < it.lo THEN NoMatch
                        ELSE MatchRep(it, IF it.greedy THEN most ELSE it.lo, most,
                                      rest, s, pos, caps, ic)
               [] it.t = "end" ->
                    Match(rest, s, pos, SetGroup(caps, it.cap, SubSeq(s, it.start, pos - 1)), ic)

\* the alternatives of it from number k on
MatchAlts(it, k, rest, s, pos, caps, ic) ==
    IF k > Len(it.alts) THEN NoMatch
    ELSE LET r == Match(it.alts[k] \o <<EndGroup(it.cap, pos)>> \o rest, s, pos, caps, ic)
         IN  IF r.ok THEN r ELSE MatchAlts(it, k + 1, rest, s, pos, caps, ic)

\* the repetition it taken n times, then fewer (greedy) or more (lazy) times
MatchRep(it, n, most, rest, s, pos, caps, ic) ==
    IF n < it.lo \/ n > most THEN NoMatch
    ELSE LET r == Match(rest, s, pos + n,
                        SetGroup(caps, it.cap, SubSeq(s, pos, pos + n - 1)), ic)
         IN  IF r.ok THEN r
             ELSE MatchRep(it, IF it.greedy THEN n - 1 ELSE n + 1, most, rest, s, pos, caps, ic)

\* re.search: the match at the leftmost position where there is one
RECURSIVE SearchFrom(_, _, _, _)
SearchFrom(items, s, pos, ic) ==
    IF pos > Len(s) + 1 THEN NoMatch
    ELSE LET r == Match(items, s, pos, NoGroups, ic)
         IN  IF r.ok THEN r ELSE SearchFrom(items, s, pos + 1, ic)

re_search(items, s, ic) == SearchFrom(items, s, 1, ic)

\* re.match followed by a test that the whole text was consumed (strptime)
re_fullmatch(items, s, ic) ==
    LET r == Match(items, s, 1, NoGroups, ic)
    IN  IF r.ok /\ r.end = Len(s) + 1 THEN r ELSE NoMatch

------------------------------------------------------------------------------
(* The calendar (datetime.date).                                            *)

IsLeap(y) == (y % 4 = 0 /\ y % 100 # 0) \/ y % 400 = 0

DaysInMonth(y, m) ==
    IF m = 2 THEN (IF IsLeap(y) THEN 29 ELSE 28)
    ELSE IF m \in {4, 6, 9, 11} THEN 30 ELSE 31

Date(y, m, d) == [y |-> y, m |-> m, d |-> d]

\* date.toordinal
toordinal(t) ==
    LET y1 == t.y - 1
        before_year == y1 * 365 + (y1 \div 4) - (y1 \div 100) + (y1 \div 400)
        RECURSIVE before_month(_)
        before_month(m) == IF m = 1 THEN 0 ELSE before_month(m - 1) + DaysInMonth(t.y, m - 1)
    IN  before_year + before_month(t.m) + t.d

\* date.weekday: Monday is 0
weekday(t) == (toordinal(t) + 6) % 7

NextDay(t) ==
    IF t.d < DaysInMonth(t.y, t.m) THEN Date(t.y, t.m, t.d + 1)
    ELSE IF t.m < 12 THEN Date(t.y, t.m + 1, 1)
    ELSE Date(t.y + 1, 1, 1)

\* t + timedelta(days=n), n >= 0
RECURSIVE AddDays(_, _)
AddDays(t, n) == IF n = 0 THEN t ELSE AddDays(NextDay(t), n - 1)

\* strftime('%Y-%m-%d'); the C library's %Y does not pad a year below 1000
isoformat(t) == IntToStr(t.y) \o "-" \o Pad(IntToStr(t.m), 2) \o "-" \o Pad(IntToStr(t.d), 2)

\* date.fromisoformat on a YYYY-MM-DD text: TRUE iff it parses
fromisoformat_ok(v) ==
    /\ Len(v) = 10
    /\ CharAt(v, 5) = "-" /\ CharAt(v, 8) = "-"
    /\ AllIn(SubSeq(v, 1, 4), Digits)
    /\ AllIn(SubSeq(v, 6, 7), Digits)
    /\ AllIn(SubSeq(v, 9, 10), Digits)
    /\ LET y == ToInt(SubSeq(v, 1, 4))
           m == ToInt(SubSeq(v, 6, 7))
           d == ToInt(SubSeq(v, 9, 10))
       IN  y >= 1 /\ m \in 1..12 /\ d >= 1 /\ d <= DaysInMonth(y, m)

------------------------------------------------------------------------------
(* agents/models.py: the action schema.                                     *)

Has(r, f) == f \in DOMAIN r

\* a validator that lets every url through
validate_url_any(v) == TRUE

\* GotoAction.validate_url
validate_url(v) == startswith(v, "http://") \/ startswith(v, "https://")

\* an extension that is appended whatever the name ends with
filename_with_ext_always(v) == v \o ".png"

\* the value ScreenshotAction.validate_filename works on after its first step
filename_with_ext(v) == IF endswith(v, ".png") THEN v ELSE v \o ".png"

\* a validator without the check of the characters
validate_filename_lax(v) == [ok |-> TRUE, value |-> filename_with_ext(v)]

\* ScreenshotAction.validate_filename: [ok, value]
validate_filename(v) ==
    LET w == filename_with_ext(v)
    IN  IF AllIn(w, WordChars \cup {"-", ".", " "})
        THEN [ok |-> TRUE, value |-> w]
        ELSE [ok |-> FALSE, value |-> v]

\* BookFlightAction.validate_date
validate_date(v) == fromisoformat_ok(v)

action_models == {"goto", "fill", "click", "press", "click_result", "screenshot",
                  "book_flight", "wait"}

\* model(**action_data) of validate_actions: [ok, value]
ValidateRecord(r) ==
    LET bad == [ok |-> FALSE, value |-> r]
        good(v) == [ok |-> TRUE, value |-> v]
    IN  IF ~Has(r, "action") \/ r.action = "" THEN bad
        ELSE IF r.action \notin action_models THEN bad
        ELSE CASE r.action = "goto" ->
                    IF Has(r, "value") /\ validate_url(r.value)
                    THEN good([action |-> "goto", value |-> r.value]) ELSE bad
               [] r.action = "fill" ->
                    IF Has(r, "selector") /\ Has(r, "value")
                    THEN good([action |-> "fill", selector |-> r.selector, value |-> r.value])
                    ELSE bad
               [] r.action = "click" ->
                    IF Has(r, "selector")
                    THEN good([action |-> "click", selector |-> r.selector]) ELSE bad
               [] r.action = "press" ->
                    IF Has(r, "selector") /\ Has(r, "key")
                    THEN good([action |-> "press", selector |-> r.selector, key |-> r.key])
                    ELSE bad
               [] r.action = "click_result" -> good([action |-> "click_result"])
               [] r.action = "screenshot" ->
                    IF Has(r, "filename") /\ validate_filename(r.filename).ok
                    THEN good([action |-> "screenshot",
                               filename |-> validate_filename(r.filename).value])
                    ELSE bad
               [] r.action = "book_flight" ->
                    IF Has(r, "from") /\ Has(r, "to") /\ Has(r, "date") /\ validate_date(r.date)
                    THEN good([action |-> "book_flight", from_ |-> r.from, to |-> r.to,
                               date |-> r.date])
                    ELSE bad
               [] r.action = "wait" ->
                    good([action |-> "wait",
                          timeout |-> IF Has(r, "timeout") THEN r.timeout ELSE 1000])

\* index of the first record of the plan that the schema rejects, 0 if none
FirstInvalid(data) ==
    IF \E i \in 1..Len(data) : ~ValidateRecord(data[i]).ok
    THEN CHOOSE i \in 1..Len(data) :
            /\ ~ValidateRecord(data[i]).ok
            /\ \A j \in 1..(i - 1) : ValidateRecord(data[j]).ok
    ELSE 0

\* a validation that drops the records the schema rejects
validate_actions_skip(data) ==
    LET kept == SelectSeq(data, LAMBDA r : ValidateRecord(r).ok)
    IN  [ok |-> TRUE,
         value |-> [i \in 1..Len(kept) |-> ValidateRecord(kept[i]).value],
         index |-> 0]

\* a validation that returns the records before the first rejected one
validate_actions_prefix(data) ==
    LET n == IF FirstInvalid(data) = 0 THEN Len(data) ELSE FirstInvalid(data) - 1
    IN  [ok |-> TRUE, value |-> [i \in 1..n |-> ValidateRecord(data[i]).value], index |-> 0]

\* validate_actions: [ok, value (the validated list), index (of the offender)]
validate_actions(data) ==
    IF FirstInvalid(data) = 0
    THEN [ok |-> TRUE, value |-> [i \in 1..Len(data) |-> ValidateRecord(data[i]).value],
          index |-> 0]
    ELSE [ok |-> FALSE, value |-> <<>>, index |-> FirstInvalid(data)]

------------------------------------------------------------------------------
(* agents/intent_config.py: the tables, in declaration order.               *)

WEBSITE_MAP == <<
    <<"google", "https://www.google.com">>,
    <<"google.com", "https://www.google.com">>,
    <<"youtube", "https://www.youtube.com">>,
    <<"youtube.com", "https://www.youtube.com">>,
    <<"github", "https://www.github.com">>,
    <<"github.com", "https://www.github.com">>,
    <<"stackoverflow", "https://stackoverflow.com">>,
    <<"stackoverflow.com", "https://stackoverflow.com">>,
    <<"reddit", "https://www.reddit.com">>,
    <<"reddit.com", "https://www.reddit.com">>,
    <<"wikipedia", "https://www.wikipedia.org">>,
    <<"wikipedia.org", "https://www.wikipedia.org">>,
    <<"amazon", "https://www.amazon.in">>,
    <<"amazon.in", "https://www.amazon.in">>,
    <<"amazon.com", "https://www.amazon.com">>,
    <<"twitter", "https://www.twitter.com">>,
    <<"twitter.com", "https://www.twitter.com">>,
    <<"linkedin", "https://www.linkedin.com">>,
    <<"linkedin.com", "https://www.linkedin.com">>,
    <<"facebook", "https://www.facebook.com">>,
    <<"facebook.com", "https://www.facebook.com">> >>

SearchBoxSelector == "input[name='q'], textarea[name='q'], input[type='search']"
SubmitSelector == "input[type='submit'], button[type='submit'], button."

FIELD_SELECTOR_MAP == <<
    <<"search box", SearchBoxSelector>>,
    <<"search field", SearchBoxSelector>>,
    <<"email", "input[type='email']">>,
    <<"password", "input[type='password']">>,
    <<"username", "input[name='username'], input[name='user']">>,
    <<"name", "input[name='name'], input[name='fullname']">> >>

ELEMENT_SELECTOR_MAP == <<
    <<"submit button", SubmitSelector \o "submit">>,
    <<"search button", SubmitSelector \o "search">>,
    <<"login button", SubmitSelector \o "login">>,
    <<"first result", "div.g a">>,
    <<"first link", "a:first-of-type">>,
    <<"button", "button">> >>

CITY_MAPPING == <<
    <<"nyc", "New York">>, <<"new york city", "New York">>,
    <<"sf", "San Francisco">>, <<"san fran", "San Francisco">>, <<"sfo", "San Francisco">>,
    <<"la", "Los Angeles">>, <<"lax", "Los Angeles">>,
    <<"chi", "Chicago">>, <<"ord", "Chicago">>,
    <<"dc", "Washington DC">>, <<"washington d.c.", "Washington DC">>,
    <<"mumbai", "Mumbai">>, <<"bombay", "Mumbai">>, <<"bom", "Mumbai">>,
    <<"delhi", "Delhi">>, <<"del", "Delhi">>, <<"new delhi", "Delhi">>,
    <<"bengaluru", "Bengaluru">>, <<"bangalore", "Bengaluru">>, <<"blr", "Bengaluru">>,
    <<"chennai", "Chennai">>, <<"madras", "Chennai">>, <<"maa", "Chennai">>,
    <<"kolkata", "Kolkata">>, <<"calcutta", "Kolkata">>, <<"ccu", "Kolkata">>,
    <<"london", "London">>, <<"lon", "London">>, <<"lhr", "London">>,
    <<"paris", "Paris">>, <<"cdg", "Paris">>,
    <<"miami", "Miami">>, <<"mia", "Miami">> >>

\* WEBSITE_CONFIGS[site]['search_selector']
WEBSITE_CONFIGS == <<
    <<"youtube", "input[name='search_query']">>,
    <<"google", "textarea[name='q']">>,
    <<"wikipedia", "#searchInput">>,
    <<"wikipedia.org", "#searchInput">>,
    <<"amazon", "input[name='field-keywords']">> >>

\* WEBSITE_CONFIGS['youtube']['first_video_selector']
first_video_selector ==
    "ytd-video-renderer a#video-title[href*='watch']:not([href*='shorts'])"

ACTION_KEYWORDS == [
    navigate |-> <<"go to", "navigate to", "open", "visit">>,
    search |-> <<"search", "find", "look for", "look up">>,
    fill |-> <<"fill", "enter", "input", "type in">>,
    click |-> <<"click", "press", "tap">>,
    wait |-> <<"wait", "pause", "delay">>,
    screenshot |-> <<"screenshot", "capture", "take a picture", "snap">>,
    book_flight |-> <<"book flight", "book a flight", "search flight", "find flight",
                      "fly from">>,
    play |-> <<"play", "watch", "listen to">> ]

\* key in table
InTable(table, key) == \E i \in 1..Len(table) : table[i][1] = key

\* table.get(key, default)
Get(table, key, default) ==
    IF InTable(table, key)
    THEN table[CHOOSE i \in 1..Len(table) : table[i][1] = key][2]
    ELSE default

\* any(keyword in command for keyword in keywords)
AnyIn(keywords, c) == \E i \in 1..Len(keywords) : Contains(c, keywords[i])

------------------------------------------------------------------------------
(* agents/intent_parser_v2.py: detect_intent and extract_website.           *)

\* the longest key of WEBSITE_MAP that occurs in c, the first of them on a tie
extract_website_longest(c) ==
    LET hits == {i \in 1..Len(WEBSITE_MAP) : Contains(c, WEBSITE_MAP[i][1])}
    IN  IF hits = {} THEN None
        ELSE WEBSITE_MAP[CHOOSE i \in hits :
                 \A j \in hits :
                    \/ Len(WEBSITE_MAP[j][1]) < Len(WEBSITE_MAP[i][1])
                    \/ (Len(WEBSITE_MAP[j][1]) = Len(WEBSITE_MAP[i][1]) /\ i <= j)][1]

\* the first key of WEBSITE_MAP, in declaration order, that occurs in c
extract_website(c) ==
    IF \E i \in 1..Len(WEBSITE_MAP) : Contains(c, WEBSITE_MAP[i][1])
    THEN WEBSITE_MAP[CHOOSE i \in 1..Len(WEBSITE_MAP) :
                        /\ Contains(c, WEBSITE_MAP[i][1])
                        /\ \A j \in 1..(i - 1) : ~Contains(c, WEBSITE_MAP[j][1])][1]
    ELSE None

Detected(i, w, shot, pf) == [intent |-> i, website |-> w, screenshot |-> shot, platform |-> pf]

NoIntent == Detected(None, None, FALSE, None)

\* detect_intent: the intent and the entities (None: the key is absent)
detect_intent(c) ==
    LET has_screenshot == AnyIn(ACTION_KEYWORDS.screenshot, c)
    IN  IF AnyIn(ACTION_KEYWORDS.book_flight, c)
        THEN Detected("book_flight", None, FALSE, None)
        ELSE IF (Contains(c, "from") /\ Contains(c, "to"))
                /\ AnyIn(<<"flight", "fly", "trip">>, c)
        THEN Detected("book_flight", None, FALSE, None)
        ELSE IF AnyIn(ACTION_KEYWORDS.play, c)
        THEN Detected("play", None, FALSE,
                      IF Contains(c, "youtube") \/ Contains(c, "video")
                      THEN "youtube" ELSE None)
        ELSE IF AnyIn(ACTION_KEYWORDS.search, c)
        THEN Detected("search", extract_website(c), has_screenshot, None)
        ELSE IF AnyIn(ACTION_KEYWORDS.navigate, c)
        THEN Detected("navigate", extract_website(c), has_screenshot, None)
        ELSE IF AnyIn(ACTION_KEYWORDS.fill, c) /\ Contains(c, "with")
        THEN Detected("fill", None, has_screenshot, None)
        ELSE IF AnyIn(ACTION_KEYWORDS.click, c)
        THEN Detected("click", None, has_screenshot, None)
        ELSE IF Contains(c, "press") /\ Contains(c, "in")
        THEN Detected("press_key", None, has_screenshot, None)
        ELSE IF AnyIn(ACTION_KEYWORDS.wait, c)
        THEN Detected("wait", None, has_screenshot, None)
        ELSE IF has_screenshot
        THEN Detected("screenshot", None, TRUE, None)
        ELSE NoIntent

------------------------------------------------------------------------------
(* agents/intent_handlers.py: one plan builder per intent.                  *)

handle_navigate(c, e) ==
    LET url_part == strip(RemoveAll(c, <<"go to", "navigate to", "open", "visit">>))
        u == IF InTable(WEBSITE_MAP, lower(url_part)) THEN Get(WEBSITE_MAP, lower(url_part), "")
             ELSE IF startswith(url_part, "http://") \/ startswith(url_part, "https://")
             THEN url_part
             ELSE "https://www." \o url_part
    IN  <<[action |-> "goto", value |-> u]>>

handle_search(c, e) ==
    LET website == IF e.website = None THEN "google" ELSE e.website
        stripped == RemoveAll(c, <<"search for", "search", "find", "look for", "look up",
                                   "on google", "google">>)
        search_term == strip(IF e.screenshot
                             THEN RemoveAll(stripped, <<"and take a screenshot",
                                                        "take a screenshot", "screenshot">>)
                             ELSE stripped)
        selector == Get(WEBSITE_CONFIGS, website, Get(WEBSITE_CONFIGS, "google", ""))
        website_url == Get(WEBSITE_MAP, website, Get(WEBSITE_MAP, "google", ""))
        base == << [action |-> "goto", value |-> website_url],
                   [action |-> "fill", selector |-> selector, value |-> search_term],
                   [action |-> "press", selector |-> selector, key |-> "Enter"] >>
    IN  IF e.screenshot
        THEN Append(base, [action |-> "screenshot", filename |-> "search_results.png"])
        ELSE base

handle_play(c, e) ==
    LET search_term == strip(RemoveAll(c, <<"play", "watch", "listen to", "search youtube for",
                                            "find on youtube", "on youtube">>))
        selector == Get(WEBSITE_CONFIGS, "youtube", "")
    IN  << [action |-> "goto", value |-> Get(WEBSITE_MAP, "youtube", "")],
           [action |-> "fill", selector |-> selector, value |-> search_term],
           [action |-> "press", selector |-> selector, key |-> "Enter"],
           [action |-> "wait", timeout |-> 3000],
           [action |-> "click", selector |-> first_video_selector] >>

\* f"input[name='{field}'], textarea[name='{field}']"
GenericFieldSelector(field) ==
    "input[name='" \o field \o "'], textarea[name='" \o field \o "']"

\* r"(?:fill|enter|input|type\s+in)\s+(?:the\s+)?(.+?)\s+with\s+(.+)"
fill_pattern ==
    << Alt(<< <<Lit("fill")>>, <<Lit("enter")>>, <<Lit("input")>>,
              <<Lit("type"), Spaces1, Lit("in")>> >>, 0),
       Spaces1, Opt(<<Lit("the"), Spaces1>>), LazyGroup(1),
       Spaces1, Lit("with"), Spaces1, GreedyGroup(2) >>

handle_fill(c, e) ==
    LET m == re_search(fill_pattern, c, FALSE)
    IN  IF ~m.ok THEN <<>>
        ELSE LET field == strip(m.caps[1])
                 value == strip(m.caps[2])
             IN  <<[action |-> "fill",
                    selector |-> Get(FIELD_SELECTOR_MAP, lower(field), GenericFieldSelector(field)),
                    value |-> value]>>

\* r"(?:click|press|tap)\s+(?:the\s+)?(.+)"
click_pattern ==
    << Words(<<"click", "press", "tap">>), Spaces1, Opt(<<Lit("the"), Spaces1>>),
       GreedyGroup(1) >>

handle_click(c, e) ==
    IF Contains(c, "first") THEN <<[action |-> "click_result"]>>
    ELSE LET m == re_search(click_pattern, c, FALSE)
         IN  IF ~m.ok THEN <<>>
             ELSE LET element == strip(m.caps[1])
                  IN  <<[action |-> "click",
                         selector |-> Get(ELEMENT_SELECTOR_MAP, lower(element),
                                          "button, input[type='button'], a[href*='"
                                              \o element \o "']")]>>

\* r"press\s+(.+?)(?:\s+in|\s+on)\s+(?:the\s+)?(.+)"
press_pattern ==
    << Lit("press"), Spaces1, LazyGroup(1),
       Alt(<< <<Spaces1, Lit("in")>>, <<Spaces1, Lit("on")>> >>, 0),
       Spaces1, Opt(<<Lit("the"), Spaces1>>), GreedyGroup(2) >>

handle_press_key(c, e) ==
    LET m == re_search(press_pattern, c, FALSE)
    IN  IF ~m.ok THEN <<>>
        ELSE LET key == strip(m.caps[1])
                 field == strip(m.caps[2])
             IN  <<[action |-> "press",
                    selector |-> Get(FIELD_SELECTOR_MAP, lower(field), GenericFieldSelector(field)),
                    key |-> key]>>

\* r"(?:wait|pause|delay)\s+(?:for\s+)?(\d+)(?:\s*(ms|milliseconds|seconds|sec|s))?"
wait_pattern ==
    << Words(<<"wait", "pause", "delay">>), Spaces1, Opt(<<Lit("for"), Spaces1>>),
       Rep(Digits, FALSE, 1, Unbounded, TRUE, 1),
       Opt(<< Spaces0,
              Alt(<< <<Lit("ms")>>, <<Lit("milliseconds")>>, <<Lit("seconds")>>,
                     <<Lit("sec")>>, <<Lit("s")>> >>, 2) >>) >>

\* a conversion that drops the unit
handle_wait_raw(c, e) ==
    LET m == re_search(wait_pattern, c, FALSE)
    IN  IF ~m.ok THEN <<>>
        ELSE <<[action |-> "wait", timeout |-> ToInt(m.caps[1])]>>

handle_wait(c, e) ==
    LET m == re_search(wait_pattern, c, FALSE)
    IN  IF ~m.ok THEN <<>>
        ELSE LET time_value == ToInt(m.caps[1])
                 unit == m.caps[2]
             IN  <<[action |-> "wait",
                    timeout |-> IF unit # None /\ startswith(lower(unit), "s")
                                THEN time_value * 1000 ELSE time_value]>>

\* r"(?:screenshot|capture)\s+(?:of\s+)?(.+)"
screenshot_pattern ==
    << Words(<<"screenshot", "capture">>), Spaces1, Opt(<<Lit("of"), Spaces1>>),
       GreedyGroup(1) >>

handle_screenshot(c, e) ==
    LET m == re_search(screenshot_pattern, c, FALSE)
    IN  <<[action |-> "screenshot",
           filename |-> IF m.ok
                        THEN strip(RemoveAll(strip(m.caps[1]), <<"and", "take", "a", "the">>))
                        ELSE "screenshot.png"]>>

------------------------------------------------------------------------------
(* agents/intent_handlers.py: parse_date and handle_book_flight.            *)

Digits19 == Digits \ {"0"}
One(c) == Rep(c, FALSE, 1, 1, TRUE, 0)

\* the regular expressions _strptime builds for the directives; the groups
\* are 1: year, 2: month, 3: day
DirY == Rep(Digits, FALSE, 4, 4, TRUE, 1)
DirM == Alt(<< <<Lit("1"), One({"0", "1", "2"})>>, <<Lit("0"), One(Digits19)>>,
               <<One(Digits19)>> >>, 2)
DirD == Alt(<< <<Lit("3"), One({"0", "1"})>>, <<One({"1", "2"}), One(Digits)>>,
               <<Lit("0"), One(Digits19)>>, <<One(Digits19)>>,
               <<Lit(" "), One(Digits19)>> >>, 3)

MonthNames == <<"january", "february", "march", "april", "may", "june", "july",
                "august", "september", "october", "november", "december">>

MonthAbbrs == [i \in 1..12 |-> SubSeq(MonthNames[i], 1, 3)]

DirB == Alt([i \in 1..12 |-> <<Lit(MonthNames[i])>>], 2)
Dirb == Alt([i \in 1..12 |-> <<Lit(MonthAbbrs[i])>>], 2)

\* the list date_formats, in order
date_formats == <<
    <<DirY, Lit("-"), DirM, Lit("-"), DirD>>,              \* %Y-%m-%d
    <<DirY, Lit("/"), DirM, Lit("/"), DirD>>,              \* %Y/%m/%d
    <<DirM, Lit("/"), DirD, Lit("/"), DirY>>,              \* %m/%d/%Y
    <<DirD, Lit("-"), DirM, Lit("-"), DirY>>,              \* %d-%m-%Y
    <<DirB, Spaces1, DirD, Lit(","), Spaces1, DirY>>,      \* %B %d, %Y
    <<Dirb, Spaces1, DirD, Lit(","), Spaces1, DirY>>,      \* %b %d, %Y
    <<DirD, Spaces1, DirB, Spaces1, DirY>>,                \* %d %B %Y
    <<DirD, Spaces1, Dirb, Spaces1, DirY>>,                \* %d %b %Y
    <<DirD, Lit("/"), DirM, Lit("/"), DirY>>,              \* %d/%m/%Y
    <<DirM, Lit("-"), DirD, Lit("-"), DirY>> >>            \* %m-%d-%Y

NoDate == Date(0, 0, 0)

MonthNumber(t) ==
    IF AllIn(t, Digits) THEN ToInt(t)
    ELSE CHOOSE i \in 1..12 : lower(t) \in {MonthNames[i], MonthAbbrs[i]}

\* datetime.strptime(text, fmt): the date, or NoDate where it raises ValueError
strptime(text, fmt) ==
    LET r == re_fullmatch(fmt, text, TRUE)
    IN  IF ~r.ok THEN NoDate
        ELSE LET y == ToInt(r.caps[1])
                 m == MonthNumber(r.caps[2])
                 d == ToInt(strip(r.caps[3]))
             IN  IF y >= 1 /\ d <= DaysInMonth(y, m) THEN Date(y, m, d) ELSE NoDate

\* the loop over date_formats from number k on: the first format that parses
RECURSIVE TryFormats(_, _)
TryFormats(text, k) ==
    IF k > Len(date_formats) THEN NoDate
    ELSE LET t == strptime(text, date_formats[k])
         IN  IF t # NoDate THEN t ELSE TryFormats(text, k + 1)

weekdays == <<"monday", "tuesday", "wednesday", "thursday", "friday", "saturday", "sunday">>

\* the index (from 0) of the first weekday that starts with day_name[:3], or -1
day_index(day_name) ==
    LET p == SubSeq(day_name, 1, IF Len(day_name) < 3 THEN Len(day_name) ELSE 3)
    IN  IF \E i \in 1..7 : startswith(weekdays[i], p)
        THEN (CHOOSE i \in 1..7 : /\ startswith(weekdays[i], p)
                                  /\ \A j \in 1..(i - 1) : ~startswith(weekdays[j], p)) - 1
        ELSE 0 - 1

\* parse_date; now1 and now2 are the clock at the first and at the second call
\* of datetime.now() (only the "next <weekday>" branch calls it twice)
parse_date(date_str0, now1, now2) ==
    LET date_str == lower(strip(date_str0))
    IN  IF date_str = "tomorrow" THEN isoformat(AddDays(now1, 1))
        ELSE IF startswith(date_str, "next ")
        THEN LET day_idx == day_index(strip(SubSeq(date_str, 6, Len(date_str))))
                 days_ahead == (day_idx - weekday(now1) + 7) % 7
             IN  IF day_idx >= 0
                 THEN isoformat(AddDays(now2, IF days_ahead = 0 THEN 7 ELSE days_ahead))
                 ELSE isoformat(AddDays(now1, 7))
        ELSE LET t == TryFormats(date_str, 1)
             IN  IF t # NoDate THEN isoformat(t) ELSE isoformat(AddDays(now1, 7))

FromTo == <<Spaces1, Lit("from"), Spaces1, LazyGroup(1), Spaces1, Lit("to"), Spaces1,
            LazyGroup(2)>>

\* (?:\s+on\s+|\s+for\s+|\s+date\s*:?\s*)(.+)
OnDate == << Alt(<< <<Spaces1, Lit("on"), Spaces1>>, <<Spaces1, Lit("for"), Spaces1>>,
                    <<Spaces1, Lit("date"), Spaces0, Opt(<<Lit(":")>>), Spaces0>> >>, 0),
             GreedyGroup(3) >>

Flights == <<Lit("flight"), Opt(<<Lit("s")>>)>>

\* the list flight_patterns, in order
flight_patterns == <<
    \* (?:search|book|find)\s+(?:for\s+)?(?:a\s+)?flights?\s+from\s+(.+?)\s+to\s+(.+?)\s+(.+)
    <<Words(<<"search", "book", "find">>), Spaces1, Opt(<<Lit("for"), Spaces1>>),
      Opt(<<Lit("a"), Spaces1>>)>> \o Flights \o FromTo \o <<Spaces1, GreedyGroup(3)>>,
    \* (?:search|book|find)(?:\s+for)?(?:\s+a)?(?:\s+flights?)?(?:\s+from)\s+(.+?)\s+to\s+(.+?)(?:...)(.+)
    <<Words(<<"search", "book", "find">>), Opt(<<Spaces1, Lit("for")>>),
      Opt(<<Spaces1, Lit("a")>>), Opt(<<Spaces1>> \o Flights)>> \o FromTo \o OnDate,
    \* (?:i\s+want\s+to\s+fly|i\s+need\s+a\s+flight|i\s+would\s+like\s+to\s+book)(?:\s+from)?\s+(.+?)\s+to\s+(.+?)(?:...)(.+)
    <<Alt(<< <<Lit("i"), Spaces1, Lit("want"), Spaces1, Lit("to"), Spaces1, Lit("fly")>>,
             <<Lit("i"), Spaces1, Lit("need"), Spaces1, Lit("a"), Spaces1, Lit("flight")>>,
             <<Lit("i"), Spaces1, Lit("would"), Spaces1, Lit("like"), Spaces1, Lit("to"),
               Spaces1, Lit("book")>> >>, 0),
      Opt(<<Spaces1, Lit("from")>>), Spaces1, LazyGroup(1), Spaces1, Lit("to"), Spaces1,
      LazyGroup(2)>> \o OnDate,
    \* (?:fly|flights?|trip)\s+from\s+(.+?)\s+to\s+(.+?)(?:...)(.+)
    <<Alt(<< <<Lit("fly")>>, Flights, <<Lit("trip")>> >>, 0)>> \o FromTo \o OnDate >>

\* the number of the first pattern of flight_patterns found in c, 0 if none
FirstPattern(c) ==
    IF \E k \in 1..Len(flight_patterns) : re_search(flight_patterns[k], c, TRUE).ok
    THEN CHOOSE k \in 1..Len(flight_patterns) :
            /\ re_search(flight_patterns[k], c, TRUE).ok
            /\ \A j \in 1..(k - 1) : ~re_search(flight_patterns[j], c, TRUE).ok
    ELSE 0

\* the city as handle_book_flight cleans and maps it
CleanCity(t) ==
    LET city == strip(CollapseSpaces(strip(t)))
    IN  Get(CITY_MAPPING, lower(city), city)

handle_book_flight(c, e, now1, now2) ==
    LET k == FirstPattern(c)
    IN  IF k = 0 THEN <<>>
        ELSE LET m == re_search(flight_patterns[k], c, TRUE)
             IN  <<[action |-> "book_flight",
                    from |-> CleanCity(m.caps[1]),
                    to |-> CleanCity(m.caps[2]),
                    date |-> parse_date(strip(m.caps[3]), now1, now2)]>>

------------------------------------------------------------------------------
(* agents/intent_parser_v2.py: parse_command, step by step.                 *)

NoPlan == [some |-> FALSE, actions |-> <<>>]

\* a return of whatever list the handler built
Returned_as_is(a) == [some |-> TRUE, actions |-> a]

\* `return actions if actions else None`
Returned(a) == IF a = <<>> THEN NoPlan ELSE [some |-> TRUE, actions |-> a]

\* the normalized command
command_lower == strip(lower(command))

\* lines 39-49: the guard on blank commands, and detect_intent
Detect ==
    /\ cpc = "start"
    /\ IF command = "" \/ strip(command) = ""
       THEN /\ intent' = NoIntent
            /\ plan' = NoPlan
            /\ cpc' = "done"
       ELSE /\ intent' = detect_intent(command_lower)
            /\ plan' = plan
            /\ cpc' = IF detect_intent(command_lower).intent = None THEN "done" ELSE "handler"
    /\ UNCHANGED <<command, now, later>>
    /\ UNCHANGED execVars
    /\ UNCHANGED flowVars

\* HANDLER_REGISTRY.get(intent), applied to the command and the entities
HANDLER_REGISTRY(i, c, e, now1, now2) ==
    CASE i = "navigate" -> handle_navigate(c, e)
      [] i = "search" -> handle_search(c, e)
      [] i = "play" -> handle_play(c, e)
      [] i = "fill" -> handle_fill(c, e)
      [] i = "click" -> handle_click(c, e)
      [] i = "press_key" -> handle_press_key(c, e)
      [] i = "wait" -> handle_wait(c, e)
      [] i = "screenshot" -> handle_screenshot(c, e)
      [] i = "book_flight" -> handle_book_flight(c, e, now1, now2)

\* lines 52-64: the handler of the intent builds the plan; the clock may pass
\* midnight between two reads of it
Handle ==
    /\ cpc = "handler"
    /\ \E t \in {now, NextDay(now)} :
         /\ plan' = Returned(HANDLER_REGISTRY(intent.intent, command_lower, intent, now, t))
         /\ later' = t
    /\ cpc' = "done"
    /\ UNCHANGED <<command, now, intent>>
    /\ UNCHANGED execVars
    /\ UNCHANGED flowVars

\* parse_command as a function of the command and the clock
parse_command(c, now1, now2) ==
    IF c = "" \/ strip(c) = "" THEN NoPlan
    ELSE LET cl == strip(lower(c))
             d == detect_intent(cl)
         IN  IF d.intent = None THEN NoPlan
             ELSE Returned(HANDLER_REGISTRY(d.intent, cl, d, now1, now2))

------------------------------------------------------------------------------
(* Automation/make_my_trip.py: FlightBookingHandler, stage by stage.        *)

\* a flow that sets the date before the cities
StageOrder_dateFirst == <<"open", "date", "origin", "destination", "modal", "submit", "results">>

\* the stages of search_flights, in the order of its statements
StageOrder == <<"open", "origin", "destination", "date", "modal", "submit", "results">>

\* the stages whose failure is an exception raised into search_flights:
\* page.goto, _set_departure_city and _set_destination_city re-raise
RaisingStages == {"open", "origin", "destination"}

\* what search_flights does once stage number k has ended with verdict ok:
\* "raise" enters its except clause, "next" goes on to the next statement,
\* "return" returns the verdict of _wait_for_results
AfterStage(k, ok) ==
    IF ~ok /\ StageOrder[k] \in RaisingStages THEN "raise"
    ELSE IF k = Len(StageOrder) THEN "return"
    ELSE "next"

\* search_flights' return value once it has ended after the stages in st
search_flights_result(st) ==
    /\ Len(st) = Len(StageOrder)
    /\ st[Len(st)].ok

\* handle_booking folds search_flights' value (it never raises) into a boolean
handle_booking_result(st) == search_flights_result(st)

------------------------------------------------------------------------------
(* Automation/make_my_trip.py: the city stages and the date stage, step by  *)
(* step.                                                                    *)

\* line 497: `range(min(count, 10))`
ScanLimit == 10

\* str.split(sep)[0], and str.split()[0] of a text without leading blanks:
\* the text before the first separator
RECURSIVE BeforeSep(_, _)
BeforeSep(s, seps) ==
    IF Len(s) = 0 \/ CharAt(s, 1) \in seps THEN ""
    ELSE CharAt(s, 1) \o BeforeSep(Tail(s), seps)

\* lines 485-494: the patterns looked for in an option's text
city_patterns(city_name) ==
    LET city_lower == strip(lower(city_name))
    IN  <<city_lower,
          strip(BeforeSep(city_lower, {","})),
          strip(BeforeSep(city_lower, {"("})),
          BeforeSep(city_lower, Whitespace)>>

\* lines 507-512: some non-empty pattern occurs in the option's text
PatternMatches(city_name, text) ==
    LET text_lower == lower(strip(text))
        ps == city_patterns(city_name)
    IN  \E k \in 1..Len(ps) : ps[k] # "" /\ Contains(text_lower, ps[k])

\* lines 497-520: the options are looked at from the top, up to option n; an
\* invisible or textless option is skipped; the first one that matches is
\* clicked, and when that click raises the loop goes on with the next option.
\* An option is [text, visible, clicks (a click on it returns)].
RECURSIVE ScanOptions(_, _, _, _, _)
ScanOptions(city_name, options, i, n, clicks) ==
    IF i > n THEN [found |-> FALSE, clicks |-> clicks]
    ELSE IF ~options[i].visible \/ options[i].text = ""
    THEN ScanOptions(city_name, options, i + 1, n, clicks)
    ELSE IF ~PatternMatches(city_name, options[i].text)
    THEN ScanOptions(city_name, options, i + 1, n, clicks)
    ELSE IF options[i].clicks THEN [found |-> TRUE, clicks |-> Append(clicks, i)]
    ELSE ScanOptions(city_name, options, i + 1, n, Append(clicks, i))

\* _select_city_from_suggestions: whether an option was selected, and the
\* options clicked on the way; `split()[0]` of a blank name raises IndexError,
\* which line 524 turns into False
select_city_from_suggestions(city_name, options) ==
    IF strip(lower(city_name)) = "" THEN [found |-> FALSE, clicks |-> <<>>]
    ELSE ScanOptions(city_name, options, 1,
                     IF Len(options) < ScanLimit THEN Len(options) ELSE ScanLimit, <<>>)

\* an abort of the stage when no option matches
suggestions_outcome_strict(city_name, shown, options, fallback_ok) ==
    LET s == select_city_from_suggestions(city_name, options)
    IN  IF shown /\ options # <<>> /\ options[1].visible /\ s.found
        THEN [clicks |-> s.clicks, selected |-> s.clicks[Len(s.clicks)],
              enter |-> FALSE, raised |-> FALSE]
        ELSE [clicks |-> <<>>, selected |-> 0, enter |-> FALSE, raised |-> TRUE]

\* lines 265-300 (377-412 for the destination): the suggestions are expected
\* visible, then their first option; a match is selected, else the first
\* option is clicked; any exception on the way leads to the except clause,
\* which takes a screenshot and presses Enter (fallback_ok: both return).
\* The verification that follows a selection never fails the stage.
suggestions_outcome(city_name, shown, options, fallback_ok) ==
    LET Fallback(cl) == [clicks |-> cl, selected |-> 0,
                         enter |-> fallback_ok, raised |-> ~fallback_ok]
    IN  IF ~shown \/ options = <<>> THEN Fallback(<<>>)
        ELSE IF ~options[1].visible THEN Fallback(<<>>)
        ELSE LET s == select_city_from_suggestions(city_name, options)
             IN  IF s.found
                 THEN [clicks |-> s.clicks, selected |-> s.clicks[Len(s.clicks)],
                       enter |-> FALSE, raised |-> FALSE]
                 ELSE IF options[1].clicks
                 THEN [clicks |-> Append(s.clicks, 1), selected |-> 1,
                       enter |-> FALSE, raised |-> FALSE]
                 ELSE Fallback(Append(s.clicks, 1))

\* what a locator's first element is on the page: not visible, visible but
\* disabled, or visible and enabled
ElemStates == {"absent", "disabled", "ready"}

\* the element strategy 2 settles on (lines 224-228): the combobox with the
\* aria-label or, when that one is not visible, the filtered aria-label match
AriaElement(elems) ==
    IF elems.combobox # "absent" THEN elems.combobox ELSE elems.filtered

\* a resolution that prefers the placeholder
resolve_city_input_reversed(elems) ==
    IF elems.placeholder = "ready" THEN [strategy |-> 3, tried |-> <<3>>]
    ELSE IF AriaElement(elems) = "ready" THEN [strategy |-> 2, tried |-> <<3, 2>>]
    ELSE IF elems.label = "ready" THEN [strategy |-> 1, tried |-> <<3, 2, 1>>]
    ELSE [strategy |-> 0, tried |-> <<3, 2, 1>>]

\* lines 207-239 (319-351): get_by_label, then the aria-label selector, then
\* get_by_placeholder, each expected visible and enabled, each tried in the
\* except clause of the one before; strategy 0: all failed, the stage raises
resolve_city_input(elems) ==
    IF elems.label = "ready" THEN [strategy |-> 1, tried |-> <<1>>]
    ELSE IF AriaElement(elems) = "ready" THEN [strategy |-> 2, tried |-> <<1, 2>>]
    ELSE IF elems.placeholder = "ready" THEN [strategy |-> 3, tried |-> <<1, 2, 3>>]
    ELSE [strategy |-> 0, tried |-> <<1, 2, 3>>]

\* the names the module binds (its imports and its class), the names
\* _set_date binds, and the methods of FlightBookingHandler
module_globals == {"re", "os", "datetime", "Page", "PlaywrightTimeout", "expect",
                   "Optional", "load_dotenv", "FlightBookingHandler"}

set_date_locals == {"self", "date_str", "date_obj", "formatted_date", "day",
    "month_num", "year", "month_name", "date_input_selectors", "selector",
    "date_input", "char", "input_value", "calendar", "current_month",
    "current_text", "target_month", "date_selectors", "cal_selector", "date_cell",
    "month_year_selectors", "header", "m", "next_button", "prev_button",
    "day_selectors", "day_selector", "day_cell", "input_element", "e"}

handler_methods == {"__init__", "search_flights", "_close_search_modal",
    "_dismiss_dialogs", "_set_departure_city", "_set_destination_city",
    "_get_contextual_suggestions", "_select_city_from_suggestions", "_set_date",
    "_click_search_button", "_wait_for_results", "handle_booking"}

\* reading a name that nothing binds raises NameError; looking up a method
\* the class does not have raises AttributeError
NameError(name) == name \notin module_globals \cup set_date_locals

AttributeError(name) == name \notin handler_methods

date_input_selectors == <<"[aria-label=\"Departure date\"]",
    "[placeholder*=\"Departure date\"]", "[aria-label=\"Departure\"]",
    "input[type=\"text\"][aria-label*=\"Departure\"]",
    "[role=\"textbox\"][aria-label*=\"Departure\"]">>

month_year_selectors == <<"[aria-label*=\"Month\"]", "[class*=\"month-picker\"]",
    "[aria-label*=\"Select date\"]", "[class*=\"calendar-header\"]">>

\* lines 669-672: the two locators of the day cell
day_selectors == <<"td[role=\"gridcell\"]:has-text(day)", "button:has-text(day)">>

\* the day the stage runs on, the dates asked for, and how many months the
\* calendar can be paged either way from the month it opens on
Today == Date(2026, 11, 4)

Targets == {Date(2026, 11, 20), Date(2026, 12, 25), Date(2027, 1, 2), Date(2026, 10, 1)}

MaxPaging == 2

\* months counted from year 0, so that paging is adding or subtracting one
MonthIndex(t) == t.y * 12 + t.m - 1

\* line 605: date_obj > datetime.now(), date_obj being midnight of the date
paging_direction(date_obj, today) ==
    IF toordinal(date_obj) > toordinal(today) THEN "next" ELSE "previous"

\* line 658: date_obj.month > datetime.now().month
header_paging_direction(date_obj, today) ==
    IF date_obj.m > today.m THEN "next" ELSE "previous"

\* the month the calendar shows after a click on the button of that direction
Paged(displayed, direction) ==
    IF direction = "next" THEN displayed + 1 ELSE displayed - 1

\* the click turns the page: the button is there and the calendar has the month
CanPage(page, displayed, direction) ==
    /\ page.buttons = "visible"
    /\ Paged(displayed, direction) >= MonthIndex(Today) - MaxPaging
    /\ Paged(displayed, direction) <= MonthIndex(Today) + MaxPaging

\* lines 562-602, from selector k on.  page = [inputs (the date input
\* selectors whose element is visible), echo (the field shows the typed
\* date), calendar (the widget opens), label ("month year": the header names
\* the displayed month, as in "January 2027"; "other": it never names a
\* month), buttons (the paging buttons are visible or hidden), day_visible,
\* headers (the month_year_selectors whose element is visible), target (the
\* date asked for)].  The result tells how the scan ends ("paging": selector k
\* has come to the loop of line 604), what was done, and whether line 613 has
\* bound date_selectors.
RECURSIVE direct_entry(_, _, _, _)
direct_entry(page, k, ev, bound) ==
    IF k > Len(date_input_selectors)
    THEN [end |-> "next", k |-> 0, events |-> ev, bound |-> bound]
    ELSE IF k \notin page.inputs THEN direct_entry(page, k + 1, ev, bound)
    ELSE LET typed == Append(ev, "type")
             opened == Append(typed, "open calendar")
         IN  IF page.echo THEN [end |-> "True", k |-> k, events |-> typed, bound |-> bound]
             ELSE IF ~page.calendar THEN direct_entry(page, k + 1, opened, bound)
             ELSE [end |-> "paging", k |-> k, events |-> opened, bound |-> bound]

\* lines 612-633: date_selectors is bound, and the loop over the day cells
\* reads calendar_selectors; "next" is the continue of line 636
select_day_cell(page, ev) ==
    IF NameError("calendar_selectors")                  \* line 624
    THEN [end |-> "next", events |-> Append(ev, "NameError")]
    ELSE IF ~page.day_visible THEN [end |-> "next", events |-> ev]
    ELSE IF NameError("formatted_full")                 \* line 629
    THEN [end |-> "next", events |-> ev \o <<"click day", "NameError">>]
    ELSE [end |-> "True", events |-> Append(ev, "click day")]

\* lines 671-682: each day locator whose cell is visible is clicked, and the
\* print that follows the click reads formatted_full
RECURSIVE click_day(_, _, _)
click_day(page, j, ev) ==
    IF j > Len(day_selectors) THEN [end |-> "next", events |-> ev]
    ELSE IF ~page.day_visible THEN click_day(page, j + 1, ev)
    ELSE IF NameError("formatted_full")                 \* line 679
    THEN click_day(page, j + 1, ev \o <<"click day", "NameError">>)
    ELSE [end |-> "True", events |-> Append(ev, "click day")]

\* lines 646-652, from header selector k on: the first visible header from
\* there comes to the loop of line 654
RECURSIVE calendar_navigation(_, _, _)
calendar_navigation(page, k, ev) ==
    IF k > Len(month_year_selectors) THEN [end |-> "next", k |-> 0, events |-> ev]
    ELSE IF k \notin page.headers THEN calendar_navigation(page, k + 1, ev)
    ELSE [end |-> "paging", k |-> k, events |-> ev]

\* lines 688-719: the loop over date_selectors, which is unbound unless the
\* first phase got to line 613 (the UnboundLocalError ends the stage through
\* the outer except clause); each visible element is filled, and the check
\* that follows calls _verify_date_selected; then False is returned
fallback_input(page, ev, bound) ==
    IF ~bound THEN [end |-> "False", events |-> Append(ev, "UnboundLocalError")]
    ELSE IF ~page.day_visible THEN [end |-> "False", events |-> ev]
    ELSE IF AttributeError("_verify_date_selected")     \* line 700
    THEN [end |-> "False", events |-> ev \o <<"fill", "AttributeError">>]
    ELSE [end |-> "True", events |-> Append(ev, "fill")]

search_selectors == <<"button:has-text(\"Search\")", "button:has-text(\"Find flights\")",
    "button:has-text(\"Search flights\")", "button[aria-label*=\"Search\" i]",
    "button[aria-label*=\"Find\" i]", "button[type=\"submit\"]",
    "button[jsname*=\"search\"]", "button[data-testid*=\"search\"]",
    "button[class*=\"search\"]", "button.VfPpkd-LgbsSe", "button[jsaction*=\"search\"]",
    "input[type=\"submit\"]", "[role=\"button\"]:has-text(\"Search\")",
    "[role=\"button\"]:has-text(\"Find\")">>

\* what the stage did to control k, and how it went
Did(k, what, ok) == [control |-> k, what |-> what, ok |-> ok]

\* an activation that tries the in-page click first
activate_jsFirst(c, k) ==
    LET js == <<Did(k, "dismiss", TRUE), Did(k, "js", c.js)>>
    IN  IF c.js THEN js
        ELSE IF c.enabled /\ c.click THEN Append(js, Did(k, "direct", TRUE))
        ELSE js \o <<Did(k, "direct", FALSE), Did(k, "dispatch", c.dispatch)>>

\* lines 766-820, on the visible control of selector k.  c = [enabled,
\* covered (the element at its centre is another one), click, js, dispatch
\* (the activation goes through)].  The dialogs are dismissed; strategy 1
\* expects the control enabled, dismisses the dialogs again when it is
\* covered, and clicks; its except clause runs element.click() in the page,
\* and the except clause of that one dispatches a click event.
activate(c, k) ==
    LET cleared == <<Did(k, "dismiss", TRUE)>>
        uncovered == IF c.covered
                     THEN cleared \o <<Did(k, "occluded", TRUE), Did(k, "dismiss", TRUE)>>
                     ELSE cleared
        direct == IF c.enabled THEN Append(uncovered, Did(k, "direct", c.click))
                  ELSE Append(cleared, Did(k, "direct", FALSE))
        js == Append(direct, Did(k, "js", c.js))
    IN  IF c.enabled /\ c.click THEN direct
        ELSE IF c.js THEN js
        ELSE Append(js, Did(k, "dispatch", c.dispatch))

\* one of the three strategies went through (click_success, line 822)
Activated(ev) ==
    \E i \in 1..Len(ev) : ev[i].what \in {"direct", "js", "dispatch"} /\ ev[i].ok

\* lines 759-861, from selector k on.  page maps each selector to the
\* control its first element is, visible or not; the first control that is
\* activated ends the stage with True, and when the selectors are used up a
\* screenshot is attempted and False is returned.
RECURSIVE click_search_button(_, _, _)
click_search_button(page, k, ev) ==
    IF k > Len(search_selectors)
    THEN [end |-> "False", events |-> Append(ev, Did(0, "screenshot", TRUE))]
    ELSE IF ~page[k].visible THEN click_search_button(page, k + 1, ev)
    ELSE LET done == activate(page[k], k)
         IN  IF Activated(done) THEN [end |-> "True", events |-> ev \o done]
             ELSE click_search_button(page, k + 1, ev \o done)

loading_selectors == <<"[role=\"progressbar\"]", "[class*=\"loading\"]",
    "[class*=\"spinner\"]", "text=\"Loading...\"", ".progress-circular",
    ".loading-indicator">>

error_selectors == <<"text=\"No flights found\"", "text=\"No matching flights\"",
    "text=\"Try different dates\"", "text=\"No options\"", "text=\"No results\"",
    "text=\"Sorry, we couldn't find any flights\"",
    ".gws-flights-results__error-message", "[class*=\"error-message\"]",
    "[class*=\"no-results\"]", "text=\"0 flights available\"",
    "text=\"No direct flights\"", "[class*=\"empty-state\"]">>

result_selectors == <<"[data-testid=\"flight-card\"]", "[data-testid*=\"itinerary\"]",
    "[class*=\"flight-card\"]", "[class*=\"flight-result\"]", "[jsname*=\"flight\"]",
    "div[role=\"listitem\"]", ".gws-flights-results__itinerary-card", ".R1xNUc",
    ".Rk10dc", "[class*=\"itinerary\"]", "[class*=\"result-item\"]">>

\* lines 897-904: each visible loading indicator is awaited, and a wait that
\* times out is skipped like one that returns
RECURSIVE await_loading(_, _, _)
await_loading(page, k, ev) ==
    IF k > Len(loading_selectors) THEN ev
    ELSE await_loading(page, k + 1,
                       IF k \in page.loading THEN Append(ev, "await loading") ELSE ev)

\* a scan that takes no marker for a verdict
scan_markers_blind(page, k, ev) == [end |-> "next", events |-> ev]

\* lines 923-937, from selector k on: the first marker that is visible ends
\* the stage with a screenshot attempt and False; a marker whose query raises
\* is skipped
RECURSIVE scan_markers(_, _, _)
scan_markers(page, k, ev) ==
    IF k > Len(error_selectors) THEN [end |-> "next", events |-> ev]
    ELSE IF page.markers[k] = "visible"
    THEN [end |-> "False", events |-> ev \o <<"marker", "screenshot">>]
    ELSE scan_markers(page, k + 1, ev)

\* lines 955-992, from selector k on: the first locator that counts items
\* whose first one is visible and has text other than white space ends the
\* stage with True ("content"); the others ("none", "hidden", "empty", and
\* "raises" for a query that raises) are passed over
RECURSIVE scan_cards(_, _, _)
scan_cards(page, k, ev) ==
    IF k > Len(result_selectors) THEN [end |-> "next", events |-> ev]
    ELSE IF page.cards[k] = "content"
    THEN [end |-> "True", events |-> Append(ev, "cards")]
    ELSE scan_cards(page, k + 1, ev)

\* lines 879-1018.  page = [load (wait_for_load_state returns), loading (the
\* loading selectors whose indicator is visible), markers, cards]
wait_for_results(page) ==
    IF ~page.load THEN [end |-> "False", events |-> <<"exception", "screenshot">>]
    ELSE LET m == scan_markers(page, 1, await_loading(page, 1, <<"loaded">>))
             c == scan_cards(page, 1, m.events)
         IN  IF m.end # "next" THEN m
             ELSE IF c.end # "next" THEN c
             ELSE [end |-> "False", events |-> Append(c.events, "screenshot")]

\* the city names, suggestion lists and pages the stages are run on
Cities == {"Delhi", "New York, NY (JFK)"}

MaxOptions == 2

Options == [text : {"Delhi, India", "Mumbai (BOM)"}, visible : BOOLEAN, clicks : BOOLEAN]

\* a list of ScanLimit + 1 options, all visible, of which only option k
\* names Delhi
LongList(k) ==
    [i \in 1..(ScanLimit + 1) |->
        [text |-> IF i = k THEN "New Delhi (DEL)" ELSE "Mumbai (BOM)",
         visible |-> TRUE, clicks |-> TRUE]]

OptionLists ==
    UNION { [1..n -> Options] : n \in 0..MaxOptions }
        \cup { LongList(k) : k \in 1..(ScanLimit + 1) }

CityElems == [label : ElemStates, combobox : ElemStates,
              filtered : ElemStates, placeholder : ElemStates]

NoElems == [label |-> "absent", combobox |-> "absent",
            filtered |-> "absent", placeholder |-> "absent"]

DatePages == [inputs : {{}, {1}, {3}, {2, 5}}, echo : BOOLEAN, calendar : BOOLEAN,
              label : {"month year", "other"}, buttons : {"visible", "hidden"},
              day_visible : BOOLEAN, headers : {{}, {1}, {2, 4}}, target : Targets]

NoPage == [inputs |-> {}, echo |-> FALSE, calendar |-> FALSE, label |-> "other",
           buttons |-> "hidden", day_visible |-> FALSE, headers |-> {},
           target |-> Today]

\* the pages the submission stage is run on: a control at selectors 1 and 6,
\* or at neither
NoControl == [visible |-> FALSE, enabled |-> FALSE, covered |-> FALSE,
              click |-> FALSE, js |-> FALSE, dispatch |-> FALSE]

Controls == [visible : {TRUE}, enabled : BOOLEAN, covered : BOOLEAN,
             click : BOOLEAN, js : BOOLEAN, dispatch : BOOLEAN] \cup {NoControl}

SubmitPages ==
    { [k \in 1..Len(search_selectors) |->
          IF k = 1 THEN a ELSE IF k = 6 THEN b ELSE NoControl] :
      a \in Controls, b \in Controls }

\* the pages the results stage is run on: markers at selectors 2 and 9, cards
\* at selectors 1 and 8
MarkerStates == {"hidden", "visible", "raises"}

CardStates == {"none", "hidden", "empty", "content", "raises"}

ResultPages ==
    { [load |-> l, loading |-> g,
       markers |-> [k \in 1..Len(error_selectors) |->
                       IF k = 2 THEN m1 ELSE IF k = 9 THEN m2 ELSE "hidden"],
       cards |-> [k \in 1..Len(result_selectors) |->
                     IF k = 1 THEN c1 ELSE IF k = 8 THEN c2 ELSE "none"]] :
      l \in BOOLEAN, g \in {{}, {1}, {3, 6}},
      m1 \in MarkerStates, m2 \in MarkerStates, c1 \in CardStates, c2 \in CardStates }


\* no stage under way
IdleFlow ==
    [pc |-> "idle", stage |-> "none", city |-> "", elems |-> NoElems, tried |-> <<>>,
     input |-> 0, interacted |-> FALSE, shown |-> FALSE, options |-> <<>>,
     clicks |-> <<>>, selected |-> 0, enter |-> FALSE, page |-> NoPage,
     events |-> <<>>, bound |-> FALSE, result |-> "none",
     k |-> 0, displayed |-> MonthIndex(Today), waits |-> 0]

\* lines 207-239: the input of the city stage is resolved, or the stage raises
ResolveInput ==
    /\ flow.pc = "resolve"
    /\ \E elems \in CityElems :
         LET r == resolve_city_input(elems)
         IN  flow' = [flow EXCEPT !.elems = elems, !.tried = r.tried,
                                  !.input = r.strategy,
                                  !.pc = IF r.strategy = 0 THEN "over" ELSE "type",
                                  !.result = IF r.strategy = 0 THEN "raised" ELSE "none"]
    /\ UNCHANGED execVars
    /\ UNCHANGED compVars

\* lines 241-260: the input is scrolled to, clicked, cleared and typed into,
\* and the page is awaited; an exception in any of these ends the stage
TypeCity ==
    /\ flow.pc = "type"
    /\ \E ok \in BOOLEAN :
         flow' = [flow EXCEPT !.interacted = TRUE,
                              !.pc = IF ok THEN "suggest" ELSE "over",
                              !.result = IF ok THEN "none" ELSE "raised"]
    /\ UNCHANGED execVars
    /\ UNCHANGED compVars

\* lines 263-302: the suggestions are handled and the stage returns True
HandleSuggestions ==
    /\ flow.pc = "suggest"
    /\ \E shown \in BOOLEAN, fallback_ok \in BOOLEAN :
         \E options \in (IF shown THEN OptionLists ELSE {<<>>}) :
           LET o == suggestions_outcome(flow.city, shown, options, fallback_ok)
           IN  flow' = [flow EXCEPT !.shown = shown, !.options = options,
                                    !.clicks = o.clicks, !.selected = o.selected,
                                    !.enter = o.enter, !.pc = "over",
                                    !.result = IF o.raised THEN "raised" ELSE "True"]
    /\ UNCHANGED execVars
    /\ UNCHANGED compVars

\* what ends a phase of _set_date ends the stage, unless the phase goes on
\* with a paging loop or the next phase is to follow
AfterPhase(r, next, paging) ==
    flow' = [flow EXCEPT !.events = r.events,
                         !.bound = IF "bound" \in DOMAIN r THEN r.bound ELSE flow.bound,
                         !.k = IF "k" \in DOMAIN r THEN r.k ELSE flow.k,
                         !.pc = IF r.end = "next" THEN next
                                ELSE IF r.end = "paging" THEN paging ELSE "over",
                         !.result = IF r.end \in {"next", "paging"} THEN "none" ELSE r.end]

\* lines 562-602: the date is typed into the next visible date input
DateDirect ==
    /\ flow.pc = "date_direct"
    /\ AfterPhase(direct_entry(flow.page, flow.k + 1, flow.events, flow.bound),
                  "date_calendar", "date_paging")
    /\ UNCHANGED execVars
    /\ UNCHANGED compVars

\* lines 604-636, one round of the loop: when the label names the target
\* month and year the day is looked for; otherwise the button of the
\* direction is clicked, and a click that times out is the continue of
\* line 636
PageMonth ==
    /\ flow.pc = "date_paging"
    /\ LET page == flow.page
           direction == paging_direction(page.target, Today)
       IN  IF page.label = "month year" /\ flow.displayed = MonthIndex(page.target)
           THEN LET r == select_day_cell(page, flow.events)
                IN  flow' = [flow EXCEPT !.events = r.events, !.bound = TRUE,
                                 !.pc = IF r.end = "True" THEN "over" ELSE "date_direct",
                                 !.result = IF r.end = "True" THEN "True" ELSE "none"]
           ELSE IF CanPage(page, flow.displayed, direction)
           THEN flow' = [flow EXCEPT !.displayed = Paged(flow.displayed, direction),
                                     !.events = Append(flow.events, direction)]
           ELSE flow' = [flow EXCEPT !.pc = "date_direct"]
    /\ UNCHANGED execVars
    /\ UNCHANGED compVars

\* lines 646-652: the next visible month header is read
DateCalendar ==
    /\ flow.pc = "date_calendar"
    /\ AfterPhase(calendar_navigation(flow.page, flow.k + 1, flow.events),
                  "date_fallback", "date_header_paging")
    /\ UNCHANGED execVars
    /\ UNCHANGED compVars

\* lines 654-685, one round of the loop: when the header contains the name of
\* the target month the day is clicked; otherwise the button of the direction
\* is clicked if it is visible, the round ends with the wait of line 665
\* (flow.waits is the parity of the waits), and a click that times out is the
\* continue of line 685
PageHeaderMonth ==
    /\ flow.pc = "date_header_paging"
    /\ LET page == flow.page
           direction == header_paging_direction(page.target, Today)
       IN  IF page.label = "month year" /\ flow.displayed % 12 = page.target.m - 1
           THEN LET c == click_day(page, 1, flow.events)
                IN  flow' = [flow EXCEPT !.events = c.events,
                                 !.pc = IF c.end = "True" THEN "over" ELSE "date_calendar",
                                 !.result = IF c.end = "True" THEN "True" ELSE "none"]
           ELSE IF page.buttons = "hidden"
           THEN flow' = [flow EXCEPT !.waits = 1 - flow.waits]
           ELSE IF CanPage(page, flow.displayed, direction)
           THEN flow' = [flow EXCEPT !.displayed = Paged(flow.displayed, direction),
                                     !.events = Append(flow.events, "header " \o direction),
                                     !.waits = 1 - flow.waits]
           ELSE flow' = [flow EXCEPT !.pc = "date_calendar"]
    /\ UNCHANGED execVars
    /\ UNCHANGED compVars

\* lines 687-728: the last resort, and the return of False
DateFallback ==
    /\ flow.pc = "date_fallback"
    /\ AfterPhase(fallback_input(flow.page, flow.events, flow.bound), "over", "over")
    /\ UNCHANGED execVars
    /\ UNCHANGED compVars

\* lines 730-870: the search control is looked for and activated
ClickSearchButton ==
    /\ flow.pc = "submit"
    /\ LET r == click_search_button(flow.page, 1, flow.events)
       IN  flow' = [flow EXCEPT !.events = r.events, !.pc = "over", !.result = r.end]
    /\ UNCHANGED execVars
    /\ UNCHANGED compVars

\* lines 872-1018: the results are awaited and classified
WaitForResults ==
    /\ flow.pc = "results"
    /\ LET r == wait_for_results(flow.page)
       IN  flow' = [flow EXCEPT !.events = r.events, !.pc = "over", !.result = r.end]
    /\ UNCHANGED execVars
    /\ UNCHANGED compVars

------------------------------------------------------------------------------
(* Automation/browser_executor.py: execute_actions.                         *)

\* what a runner yields: the outcome the loop reports for the action, whether
\* its element was seen visible, and whether the element was interacted with
Entry(a, o, v, t) == [action |-> a, outcome |-> o, visible |-> v, interacted |-> t]

NoElement == [visible |-> FALSE, interacted |-> FALSE]

\* `await page.url()`: Page.url is a str property (the tests read it as
\* page.url.startswith(...)), so the call raises TypeError
PageUrlCall(u) == [raised |-> TRUE, value |-> u]

\* the "goto" branch: env = [ok (page.goto returned), extra (the YouTube
\* post-load sub-routine ran without raising)]
GotoRunner(a, env) ==
    IF env.ok THEN Entry("goto", "Success", FALSE, FALSE)
    ELSE Entry("goto", "Failed", FALSE, FALSE)

\* the "fill" and "press" branches: expect(locator).to_be_visible, then the
\* interaction; env = [visible, ok (the interaction returned)]
LocatorRunner(a, env) ==
    IF ~env.visible THEN Entry(a.action, "Failed", FALSE, FALSE)
    ELSE IF env.ok THEN Entry(a.action, "Success", TRUE, TRUE)
    ELSE Entry(a.action, "Failed", TRUE, TRUE)

\* the special handling of YouTube video clicks: env.extra says the results
\* container appeared and some activation (link, thumbnail, Enter) worked
YouTubeClick(a, env) ==
    IF env.extra THEN Entry("click", "Success", env.visible, TRUE)
    ELSE Entry("click", "Failed", env.visible, FALSE)

\* the "click" branch
ClickRunner(a, u, env) ==
    LET called == PageUrlCall(u)
    IN  IF called.raised THEN Entry("click", "Failed", env.visible, FALSE)
        ELSE IF Contains(called.value, "youtube.com")
                /\ (Contains(a.selector, "ytd-video-renderer")
                    \/ Contains(a.selector, "video-title"))
        THEN YouTubeClick(a, env)
        ELSE LocatorRunner(a, env)

\* the "click_result" and "wait" branches: one or two awaited
\* calls, each of which either returns or raises
SimpleRunner(a, env) ==
    IF env.ok THEN Entry(a.action, "Success", FALSE, FALSE)
    ELSE Entry(a.action, "Failed", FALSE, FALSE)

\* line 261: os.path.join("screenshots", action.filename)
filepath(filename) ==
    IF startswith(filename, "/") THEN filename ELSE "screenshots/" \o filename

\* the "screenshot" branch: page.screenshot(path=filepath) returns or raises
ScreenshotRunner(a, env) ==
    [action |-> "screenshot", outcome |-> IF env.ok THEN "Success" ELSE "Failed",
     visible |-> FALSE, interacted |-> FALSE, path |-> filepath(a.filename)]

\* a booking whose failure is raised into the loop
BookFlightEntry_raise(st) ==
    IF handle_booking_result(st) THEN Entry("book_flight", "Success", FALSE, FALSE)
    ELSE Entry("book_flight", "Failed", FALSE, FALSE)

\* the "book_flight" branch, given the stages search_flights went through
BookFlightEntry(st) ==
    IF handle_booking_result(st) THEN Entry("book_flight", "Success", FALSE, FALSE)
    ELSE Entry("book_flight", "Warning", FALSE, FALSE)

Envs == [visible : BOOLEAN, ok : BOOLEAN, extra : BOOLEAN]

\* what the loop prints for the action: its tag, its outcome and, for a
\* screenshot, the path of the file
Printed(entry) ==
    IF "path" \in DOMAIN entry
    THEN [action |-> entry.action, outcome |-> entry.outcome, path |-> entry.path]
    ELSE [action |-> entry.action, outcome |-> entry.outcome]

\* a loop that a failed action ends
AfterAction_abort(entry) ==
    /\ log' = Append(log, Printed(entry))
    /\ last' = [visible |-> entry.visible, interacted |-> entry.interacted]
    /\ idx' = IF entry.outcome = "Failed" THEN Len(actions) + 1 ELSE idx + 1
    /\ pc' = "loop"

\* a loop that runs a failed action again
AfterAction_retry(entry) ==
    /\ log' = Append(log, Printed(entry))
    /\ last' = [visible |-> entry.visible, interacted |-> entry.interacted]
    /\ idx' = IF entry.outcome = "Failed" THEN idx ELSE idx + 1
    /\ pc' = "loop"

\* the except clause of the per-action try: the error is printed and the
\* for-loop goes on with the next action
AfterAction(entry) ==
    /\ log' = Append(log, Printed(entry))
    /\ last' = [visible |-> entry.visible, interacted |-> entry.interacted]
    /\ idx' = idx + 1
    /\ pc' = "loop"

AtAction(tag) ==
    /\ pc = "loop"
    /\ idx <= Len(actions)
    /\ actions[idx].action = tag

\* a validation that writes the validated records back into the caller's list
Validate_inplace ==
    /\ pc = "start"
    /\ LET v == validate_actions(actions_data)
       IN  IF v.ok
           THEN /\ actions' = v.value
                /\ actions_data' = v.value
                /\ pc' = "launch"
           ELSE /\ actions' = <<>>
                /\ actions_data' = actions_data
                /\ pc' = "returned"
    /\ UNCHANGED <<idx, log, last, context, url, exc, stages>>
    /\ UNCHANGED compVars
    /\ UNCHANGED flowVars

\* lines 29-34: validation; a rejected plan is printed and the call returns
Validate ==
    /\ pc = "start"
    /\ LET v == validate_actions(actions_data)
       IN  IF v.ok
           THEN /\ actions' = v.value
                /\ pc' = "launch"
           ELSE /\ actions' = <<>>
                /\ pc' = "returned"
    /\ UNCHANGED <<actions_data, idx, log, last, context, url, exc, stages>>
    /\ UNCHANGED compVars
    /\ UNCHANGED flowVars

\* lines 50-63: launch_persistent_context; a failure is re-raised
Launch ==
    /\ pc = "launch"
    /\ \E ok \in BOOLEAN :
         IF ok THEN context' = "open" /\ pc' = "new_page"
         ELSE context' = context /\ pc' = "raised"
    /\ UNCHANGED <<actions_data, actions, idx, log, last, url, exc, stages>>
    /\ UNCHANGED compVars
    /\ UNCHANGED flowVars

\* line 67: browser_context.new_page(), before the try block
NewPage ==
    /\ pc = "new_page"
    /\ \E ok \in BOOLEAN : pc' = IF ok THEN "loop" ELSE "raised"
    /\ UNCHANGED <<actions_data, actions, idx, log, last, context, url, exc, stages>>
    /\ UNCHANGED compVars
    /\ UNCHANGED flowVars

RunGoto ==
    /\ AtAction("goto")
    /\ \E env \in Envs :
         /\ AfterAction(GotoRunner(actions[idx], env))
         /\ url' = IF env.ok THEN actions[idx].value ELSE url
    /\ UNCHANGED <<actions_data, actions, context, exc, stages>>
    /\ UNCHANGED compVars
    /\ UNCHANGED flowVars

RunFill ==
    /\ AtAction("fill")
    /\ \E env \in Envs : AfterAction(LocatorRunner(actions[idx], env))
    /\ UNCHANGED <<actions_data, actions, context, url, exc, stages>>
    /\ UNCHANGED compVars
    /\ UNCHANGED flowVars

RunClick ==
    /\ AtAction("click")
    /\ \E env \in Envs : AfterAction(ClickRunner(actions[idx], url, env))
    /\ UNCHANGED <<actions_data, actions, context, url, exc, stages>>
    /\ UNCHANGED compVars
    /\ UNCHANGED flowVars

RunPress ==
    /\ AtAction("press")
    /\ \E env \in Envs : AfterAction(LocatorRunner(actions[idx], env))
    /\ UNCHANGED <<actions_data, actions, context, url, exc, stages>>
    /\ UNCHANGED compVars
    /\ UNCHANGED flowVars

RunClickResult ==
    /\ AtAction("click_result")
    /\ \E env \in Envs : AfterAction(SimpleRunner(actions[idx], env))
    /\ UNCHANGED <<actions_data, actions, context, url, exc, stages>>
    /\ UNCHANGED compVars
    /\ UNCHANGED flowVars

RunScreenshot ==
    /\ AtAction("screenshot")
    /\ \E env \in Envs : AfterAction(ScreenshotRunner(actions[idx], env))
    /\ UNCHANGED <<actions_data, actions, context, url, exc, stages>>
    /\ UNCHANGED compVars
    /\ UNCHANGED flowVars

RunWait ==
    /\ AtAction("wait")
    /\ \E env \in Envs : AfterAction(SimpleRunner(actions[idx], env))
    /\ UNCHANGED <<actions_data, actions, context, url, exc, stages>>
    /\ UNCHANGED compVars
    /\ UNCHANGED flowVars

\* lines 265-267: the call of flight_handler.handle_booking
RunBookFlight ==
    /\ AtAction("book_flight")
    /\ pc' = "booking"
    /\ stages' = <<>>
    /\ UNCHANGED <<actions_data, actions, idx, log, last, context, url, exc>>
    /\ UNCHANGED compVars
    /\ UNCHANGED flowVars

\* one stage of search_flights: it is entered, and ends with a verdict
BookingStage ==
    /\ pc = "booking"
    /\ Len(stages) < Len(StageOrder)
    /\ \E ok \in BOOLEAN :
         LET k == Len(stages) + 1
             st == Append(stages, [stage |-> StageOrder[k], ok |-> ok])
         IN  /\ stages' = st
             /\ pc' = IF AfterStage(k, ok) = "next" THEN "booking" ELSE "booked"
    /\ url' = IF Len(stages) = 0 THEN "https://www.google.com/travel/flights" ELSE url
    /\ UNCHANGED <<actions_data, actions, idx, log, last, context, exc>>
    /\ UNCHANGED compVars
    /\ UNCHANGED flowVars

\* handle_booking has returned: lines 267-270 print the verdict
BookingReturn ==
    /\ pc = "booked"
    /\ AfterAction(BookFlightEntry(stages))
    /\ stages' = <<>>
    /\ UNCHANGED <<actions_data, actions, context, url, exc>>
    /\ UNCHANGED compVars
    /\ UNCHANGED flowVars

\* lines 289-291: the for-loop is over; input() waits for Enter, or raises
Prompt ==
    /\ pc = "loop"
    /\ idx > Len(actions)
    /\ \E ok \in BOOLEAN : exc' = ~ok
    /\ pc' = "finally"
    /\ UNCHANGED <<actions_data, actions, idx, log, last, context, url, stages>>
    /\ UNCHANGED compVars
    /\ UNCHANGED flowVars

\* lines 293-297: the finally clause closes the context (an error of close
\* itself is printed), then the call returns or the exception goes on
Finally ==
    /\ pc = "finally"
    /\ context' = "closed"
    /\ pc' = IF exc THEN "raised" ELSE "returned"
    /\ UNCHANGED <<actions_data, actions, idx, log, last, url, exc, stages>>
    /\ UNCHANGED compVars
    /\ UNCHANGED flowVars

------------------------------------------------------------------------------
(* run_task.py: main, around its call of execute_actions.                   *)

\* lines 61-68: what main prints once execute_actions is over: the success
\* line when the call returned, the error line when it raised
main_report(p) ==
    IF p = "returned" THEN "Actions completed successfully!"
    ELSE IF p = "raised" THEN "Error during execution"
    ELSE None

------------------------------------------------------------------------------
(* The plans execute_actions is run on.                                     *)

RecordPool == {
    [action |-> "goto", value |-> "https://example.com"],
    [action |-> "goto", value |-> "example.com"],
    [action |-> "goto", value |-> "http://a.b"],
    [action |-> "fill", selector |-> "#q", value |-> "cats"],
    [action |-> "click", selector |-> "button.go"],
    [action |-> "press", selector |-> "#q", key |-> "Enter"],
    [action |-> "click_result"],
    [action |-> "screenshot", filename |-> "shot"],
    [action |-> "screenshot", filename |-> "shot.png"],
    [action |-> "screenshot", filename |-> "a/b"],
    [action |-> "book_flight", from |-> "Delhi", to |-> "Mumbai", date |-> "2026-02-28"],
    [action |-> "book_flight", from |-> "Delhi", to |-> "Mumbai", date |-> "2026-02-30"],
    [action |-> "wait"],
    [action |-> "hover", selector |-> "#q"],
    [selector |-> "#q"] }

Plans == UNION { [1..n -> RecordPool] : n \in 0..MaxPlanLen }

IdleCompiler ==
    /\ command = ""
    /\ now = Date(2026, 1, 1)
    /\ later = now
    /\ cpc = "idle"
    /\ intent = NoIntent
    /\ plan = NoPlan

Init ==
    /\ pc = "start"
    /\ actions_data \in Plans
    /\ actions = <<>>
    /\ idx = 1
    /\ log = <<>>
    /\ last = NoElement
    /\ context = "none"
    /\ url = ""
    /\ exc = FALSE
    /\ stages = <<>>
    /\ IdleCompiler
    /\ flow = IdleFlow

Next ==
    \/ Validate
    \/ Launch
    \/ NewPage
    \/ RunGoto
    \/ RunFill
    \/ RunClick
    \/ RunPress
    \/ RunClickResult
    \/ RunScreenshot
    \/ RunWait
    \/ RunBookFlight
    \/ BookingStage
    \/ BookingReturn
    \/ Prompt
    \/ Finally

Spec == Init /\ [][Next]_vars

------------------------------------------------------------------------------
(* The commands and clocks parse_command is run on.                         *)

Commands == {
    "", "   ", "hello there",
    "go to github.com", "open google", "visit stackoverflow", "open https://example.org/a",
    "search for python tutorials", "find machine learning courses",
    "search for ai and take a screenshot", "search wikipedia for alan turing",
    "look up cats on amazon.com",
    "play python programming tutorial", "watch funny cat videos on youtube",
    "fill the search box with machine learning", "fill the search field with cats",
    "fill email with bob", "enter the password with x1", "input nickname with al",
    "type in username with root", "fill email",
    "click the submit button", "click first result", "tap login", "click",
    "press enter in the search field", "press tab in the email", "press enter on username",
    "take a screenshot", "capture banana", "capture foo/bar", "screenshot of my page", "snap",
    "wait 3 seconds", "wait 300", "pause for 2 sec", "delay 5ms", "wait",
    "book a flight from nyc to london next monday",
    "Book a flight from NYC to London tomorrow",
    "book a flight from nyc to new delhi tomorrow",
    "book a flight from new york city to paris 2026-12-25",
    "book a flight from mumbai to delhi on 2026-12-25",
    "search for flights from sf to la next fri",
    "find flights from boston to miami 12/25/2026",
    "find from delhi to mumbai on monday",
    "book from delhi to mumbai on 2027-01-02",
    "search for a flight from blr to maa for 25-12-2026",
    "i want to fly from san fran to cdg on december 25, 2026",
    "i want to fly delhi to mumbai on 2027-01-02",
    "i need a flight from nyc to lon on 25 dec 2026",
    "i need a flight nyc to lon on 2027-01-02",
    "i would like to book from nyc to lon on 2027-01-02",
    "fly from chi to dc on someday",
    "trip from nyc to lon on 2027-02-30",
    "play a trip from nyc to lon date: 31/12/2026",
    "flight from toronto to ord on next week",
    "search for cats and take a picture", "search for research papers",
    "search for cats and take a screenshot", "search for cats",
    "wait for 10 milliseconds", "delay 4 s", "wait a moment", "pause",
    "book a flight from nyc to london next tuesday",
    "book a flight from nyc to london next wednesday",
    "book a flight from nyc to london next thursday",
    "book a flight from nyc to london next friday",
    "book a flight from nyc to london next saturday",
    "book a flight from nyc to london next sunday",
    "book a flight from nyc to london next monkey",
    "book a flight from nyc to london someday",
    "fill with cats", "enter email without password",
    "search github for google maps", "find shoes on amazon.com",
    "find flights from new york to san francisco on 2026-12-25" }

Clocks == { Date(2026, 11, 4), Date(2026, 11, 9), Date(2026, 12, 31), Date(2028, 2, 28) }

IdleExecutor ==
    /\ pc = "idle"
    /\ actions_data = <<>>
    /\ actions = <<>>
    /\ idx = 1
    /\ log = <<>>
    /\ last = NoElement
    /\ context = "none"
    /\ url = ""
    /\ exc = FALSE
    /\ stages = <<>>

InitCompile ==
    /\ command \in Commands
    /\ now \in Clocks
    /\ later = now
    /\ cpc = "start"
    /\ intent = NoIntent
    /\ plan = NoPlan
    /\ IdleExecutor
    /\ flow = IdleFlow

NextCompile ==
    \/ Detect
    \/ Handle

SpecCompile == InitCompile /\ [][NextCompile]_vars

------------------------------------------------------------------------------
(* The stages of the booking flow, run one at a time.                       *)

InitBooking ==
    /\ \/ \E st \in {"origin", "destination"}, c \in Cities :
            flow = [IdleFlow EXCEPT !.pc = "resolve", !.stage = st, !.city = c]
       \/ \E p \in DatePages :
            flow = [IdleFlow EXCEPT !.pc = "date_direct", !.stage = "date", !.page = p]
       \/ \E p \in SubmitPages :
            flow = [IdleFlow EXCEPT !.pc = "submit", !.stage = "submit", !.page = p]
       \/ \E p \in ResultPages :
            flow = [IdleFlow EXCEPT !.pc = "results", !.stage = "results", !.page = p]
    /\ IdleExecutor
    /\ IdleCompiler

NextBooking ==
    \/ ResolveInput
    \/ TypeCity
    \/ HandleSuggestions
    \/ DateDirect
    \/ PageMonth
    \/ DateCalendar
    \/ PageHeaderMonth
    \/ DateFallback
    \/ ClickSearchButton
    \/ WaitForResults

SpecBooking == InitBooking /\ [][NextBooking]_vars

\* the date stage alone, under the assumption that every browser primitive
\* returns or times out: a stage that can take a step takes one
InitDate ==
    /\ \E p \in DatePages :
         flow = [IdleFlow EXCEPT !.pc = "date_direct", !.stage = "date", !.page = p]
    /\ IdleExecutor
    /\ IdleCompiler

NextDate ==
    \/ DateDirect
    \/ PageMonth
    \/ DateCalendar
    \/ PageHeaderMonth
    \/ DateFallback

SpecDateFair == InitDate /\ [][NextDate]_vars /\ WF_vars(NextDate)

------------------------------------------------------------------------------
(* Properties of the executor (specification Spec).                         *)

LoopOver == pc = "finally" \/ (pc \in {"returned", "raised"} /\ context = "closed")

\* C1: a failed action never short-circuits the plan: while the loop runs,
\* the log holds one entry for each action before the current one, in plan
\* order, and once the loop is over every action of the plan has its entry,
\* whatever the outcomes of the others.
C1_NoShortCircuit ==
    /\ Len(log) <= Len(actions)
    /\ \A i \in 1..Len(log) : log[i].action = actions[i].action
    /\ pc \in {"loop", "booking", "booked"} => Len(log) = idx - 1
    /\ LoopOver => Len(log) = Len(actions)

C1_Witness ==
    /\ LoopOver
    /\ Len(actions) = 3
    /\ log[1].outcome = "Success"
    /\ log[2].outcome = "Failed"
    /\ log[3].outcome = "Success"

HasInvalidRecord == \E i \in 1..Len(actions_data) : ~ValidateRecord(actions_data[i]).ok

\* C2: when some record of the plan fails schema validation, no browser
\* context is ever launched and no action is attempted: the call goes from
\* its start straight to its return.
C2_InvalidPlanNothingRuns ==
    HasInvalidRecord =>
        /\ context = "none"
        /\ log = <<>>
        /\ actions = <<>>
        /\ pc \in {"start", "returned"}

C2_Witness ==
    /\ pc = "returned"
    /\ Len(actions_data) = 3
    /\ FirstInvalid(actions_data) = 3

\* C3: in the booking flow a failed stage ends the BookFlight action: no
\* later stage is entered, and the verdict is false.
C3_FailedStageEndsBooking ==
    /\ \A k \in 1..Len(stages) : ~stages[k].ok => Len(stages) = k
    /\ (pc = "booked" /\ \E k \in 1..Len(stages) : ~stages[k].ok)
          => ~handle_booking_result(stages)

\* C4: once the browser context has been launched, it is closed by the time
\* execute_actions returns or propagates an exception.
C4_ContextClosedOnExit ==
    pc \in {"returned", "raised"} => context # "open"

\* C9: a Click action whose element becomes visible clicks it, and fails only
\* when the element does not become visible or the click itself fails.
C9_VisibleClickIsClicked ==
    (/\ pc = "loop"
     /\ Len(log) > 0
     /\ log[Len(log)].action = "click"
     /\ last.visible)
        => last.interacted

------------------------------------------------------------------------------
(* Properties of the compiler (specification SpecCompile).                  *)

\* C5: every plan parse_command returns is accepted by validate_actions.
C5_ReturnedPlanIsValid ==
    (cpc = "done" /\ plan.some) => validate_actions(plan.actions).ok

\* C6: a command in which one of the four booking phrasings of
\* handle_book_flight is found is classified as book_flight.
C6_BookingPhrasingIsBookFlight ==
    (cpc # "start" /\ FirstPattern(command_lower) # 0) => intent.intent = "book_flight"

\* the form 'press <key> in|on [the] <field>', from the start of the command
PressForm == Match(press_pattern, command_lower, 1, NoGroups, FALSE)

\* C7: a command of the form 'press <key> in|on [the] <field>' is classified
\* as press_key and compiles to the one PressKey action on <field> with <key>.
C7_PressCommandIsPressKey ==
    (cpc = "done" /\ PressForm.ok) =>
        /\ intent.intent = "press_key"
        /\ plan.some
        /\ plan.actions = handle_press_key(command_lower, intent)

\* the form 'fill|enter|input [the] <field> with <value>', from the start of
\* the command
FillForm ==
    Match(<<Words(<<"fill", "enter", "input">>)>> \o Tail(fill_pattern),
          command_lower, 1, NoGroups, FALSE)

\* C8: a command of the form 'fill|enter|input [the] <field> with <value>'
\* compiles to the one Fill action with <value> on the selector of <field>:
\* the table's selector for a known field, else the generic one.
C8_FillCommandIsFill ==
    (cpc = "done" /\ FillForm.ok) =>
        /\ plan.some
        /\ plan.actions =
             <<[action |-> "fill",
                selector |-> Get(FIELD_SELECTOR_MAP, strip(FillForm.caps[1]),
                                 GenericFieldSelector(strip(FillForm.caps[1]))),
                value |-> strip(FillForm.caps[2])]>>

BookingVerbs == {"book", "search", "find"}
BookingCities == {"nyc", "london", "new delhi", "new york city", "boston", "paris", "sf", "la"}
BookingDates == {"tomorrow", "next monday", "next fri", "2026-12-25", "12/25/2026"}

\* C10: '<verb> a flight from <X> to <Y> <date phrase>' compiles to the one
\* BookFlight action from the alias of X to the alias of Y on the ISO form of
\* the date phrase.
C10_BookingCommandIsBookFlight ==
    \A v \in BookingVerbs, x \in BookingCities, y \in BookingCities, d \in BookingDates :
        (/\ cpc = "done"
         /\ command_lower = v \o " a flight from " \o x \o " to " \o y \o " " \o d)
        => /\ plan.some
           /\ plan.actions = <<[action |-> "book_flight",
                                from |-> Get(CITY_MAPPING, x, x),
                                to |-> Get(CITY_MAPPING, y, y),
                                date |-> parse_date(d, now, later)]>>

SearchQueries == {"python tutorials", "ai", "cats", "research papers"}
ShotWordings == {"", " and take a screenshot", " and take a picture"}

\* C11: 'search for <q>' naming no known site compiles to Navigate(default
\* engine), Fill(its search field, <q>), PressKey(same field, Enter), then one
\* Screenshot exactly when the command has a screenshot keyword; the
\* screenshot wording is not in the Fill value.
C11_SearchPlan ==
    \A q \in SearchQueries, w \in ShotWordings :
        (cpc = "done" /\ command_lower = "search for " \o q \o w) =>
            /\ plan.some
            /\ Len(plan.actions) = IF AnyIn(ACTION_KEYWORDS.screenshot, command_lower)
                                   THEN 4 ELSE 3
            /\ plan.actions[1] = [action |-> "goto", value |-> Get(WEBSITE_MAP, "google", "")]
            /\ plan.actions[2] = [action |-> "fill",
                                  selector |-> Get(WEBSITE_CONFIGS, "google", ""),
                                  value |-> q]
            /\ plan.actions[3] = [action |-> "press",
                                  selector |-> Get(WEBSITE_CONFIGS, "google", ""),
                                  key |-> "Enter"]
            /\ Len(plan.actions) = 4 => plan.actions[4].action = "screenshot"

WaitVerbs == {"wait", "pause", "delay"}
WaitNumbers == {"2", "3", "4", "5", "10", "300"}
SecondUnits == {" seconds", " sec", " s", "s"}
MilliUnits == {"", "ms", " ms", " milliseconds"}

\* C12: 'wait|pause|delay [for] <n> [unit]' compiles to the one Wait action
\* whose timeout is n * 1000 for a unit of seconds (seconds, sec, s) and n for
\* milliseconds or no unit.
C12_WaitTimeout ==
    \A v \in WaitVerbs, f \in {"", " for"}, n \in WaitNumbers,
       u \in SecondUnits \cup MilliUnits :
        (cpc = "done" /\ command_lower = v \o f \o " " \o n \o u) =>
            /\ plan.some
            /\ plan.actions = <<[action |-> "wait",
                                 timeout |-> IF u \in SecondUnits THEN ToInt(n) * 1000
                                             ELSE ToInt(n)]>>

C12_Witness ==
    /\ cpc = "done"
    /\ command = "wait 3 seconds"
    /\ plan.some
    /\ plan.actions = <<[action |-> "wait", timeout |-> 3000]>>

HasNumber(s) == \E i \in 1..Len(s) : CharAt(s, i) \in Digits

\* C13: a wait without a duration has timeout 1000 ms: a wait command with no
\* number compiles to the one action Wait(1000), and a wait record with no
\* timeout field validates to timeout 1000.
C13_WaitDefault ==
    /\ ValidateRecord([action |-> "wait"]) =
           [ok |-> TRUE, value |-> [action |-> "wait", timeout |-> 1000]]
    /\ (cpc = "done" /\ intent.intent = "wait" /\ ~HasNumber(command_lower)) =>
           /\ plan.some
           /\ plan.actions = <<[action |-> "wait", timeout |-> 1000]>>

\* C14: for every weekday W and every clock, 'next W' is a date whose weekday
\* is W, 1 to 7 days after today (7 when today is W), also when the clock
\* passes midnight while parse_date runs.
C14_NextWeekday ==
    \A i \in 1..7 :
        (/\ cpc = "done"
         /\ command_lower = "book a flight from nyc to london next " \o weekdays[i])
        => /\ plan.some
           /\ \E today \in {now, later}, k \in 1..7 :
                /\ weekday(AddDays(today, k)) = i - 1
                /\ plan.actions[1].date = isoformat(AddDays(today, k))

\* date texts that are not 'tomorrow', not 'next <weekday>', and that none of
\* date_formats parses
UnreadableDates == {"someday", "next monkey"}

\* C15: for a date text that is not 'tomorrow', not 'next <weekday>' and that
\* no listed format parses, parse_date returns today + 7 days in ISO form, so
\* the booking command still compiles.
C15_UnreadableDateIsWeekAhead ==
    \A d \in UnreadableDates :
        (cpc = "done" /\ command_lower = "book a flight from nyc to london " \o d)
        => /\ plan.some
           /\ \E today \in {now, later} :
                plan.actions[1].date = isoformat(AddDays(today, 7))

------------------------------------------------------------------------------
(* Properties of the schema and of the executor (specification Spec).       *)

HasScheme(v) ==
    \/ (Len(v) >= 7 /\ SubSeq(v, 1, 7) = "http://")
    \/ (Len(v) >= 8 /\ SubSeq(v, 1, 8) = "https://")

EndsInPng(v) == Len(v) >= 4 /\ SubSeq(v, Len(v) - 3, Len(v)) = ".png"

IsRecord(r, tag) == "action" \in DOMAIN r /\ r.action = tag

\* C16: a goto record validates, to a Navigate action with the very url of the
\* record, exactly when the url starts with http:// or https://; any other
\* url makes validation fail, and no scheme is added to it.
C16_GotoUrlUnchanged ==
    \A i \in 1..Len(actions_data) :
        LET r == actions_data[i]
        IN  IsRecord(r, "goto") =>
              /\ ValidateRecord(r).ok <=> HasScheme(r.value)
              /\ HasScheme(r.value) =>
                     ValidateRecord(r).value = [action |-> "goto", value |-> r.value]
              /\ (pc # "start" /\ ~HasScheme(r.value)) => (actions = <<>> /\ pc = "returned")
              /\ (pc # "start" /\ actions # <<>>) =>
                     actions[i] = [action |-> "goto", value |-> r.value]

C16_Witness ==
    /\ pc = "launch"
    /\ Len(actions) = 2
    /\ actions_data[2] = [action |-> "goto", value |-> "http://a.b"]
    /\ actions[2].value = "http://a.b"

\* C17: normalizing a screenshot filename is idempotent, its result ends in
\* '.png', and a name with and without the extension normalize alike.
C17_FilenameIdempotent ==
    \A i \in 1..Len(actions_data) :
        LET r == actions_data[i]
            n == validate_filename(r.filename)
        IN  (IsRecord(r, "screenshot") /\ n.ok) =>
              /\ validate_filename(n.value) = n
              /\ EndsInPng(n.value)
              /\ ~EndsInPng(r.filename) => validate_filename(r.filename \o ".png") = n
              /\ (pc # "start" /\ actions # <<>>) => actions[i].filename = n.value
              /\ (pc # "start" /\ actions # <<>>) =>
                     \A j \in 1..Len(actions_data) :
                         (/\ IsRecord(actions_data[j], "screenshot")
                          /\ actions_data[j].filename = r.filename \o ".png")
                         => actions[j].filename = actions[i].filename

C17_Witness ==
    /\ pc = "launch"
    /\ Len(actions) = 2
    /\ actions_data[1] = [action |-> "screenshot", filename |-> "shot"]
    /\ actions_data[2] = [action |-> "screenshot", filename |-> "shot.png"]
    /\ actions[1].filename = "shot.png"
    /\ actions[2].filename = "shot.png"

SafeChars == WordChars \cup {"-", ".", " "}

\* the path names a file directly in the directory "screenshots"
InScreenshotsDir(path) ==
    /\ Len(path) > 12
    /\ SubSeq(path, 1, 12) = "screenshots/"
    /\ \A k \in 13..Len(path) : SubSeq(path, k, k) \notin {"/", "\\"}

\* C18: no screenshot filename with a character outside the safe set (word
\* characters, '-', '.', space) reaches the file write of the executor: every
\* file a Screenshot action writes lies directly in the screenshots directory.
C18_ScreenshotStaysInDirectory ==
    /\ \A i \in 1..Len(log) :
           log[i].action = "screenshot" =>
               /\ AllIn(actions[i].filename, SafeChars)
               /\ log[i].path = "screenshots/" \o actions[i].filename
               /\ InScreenshotsDir(log[i].path)
    /\ \A i \in 1..Len(actions_data) :
           (/\ IsRecord(actions_data[i], "screenshot")
            /\ ~AllIn(actions_data[i].filename, SafeChars))
           => (log = <<>> /\ context = "none")

C18_Witness ==
    /\ Len(log) = 2
    /\ log[2] = [action |-> "screenshot", outcome |-> "Success",
                 path |-> "screenshots/shot.png"]
    /\ actions_data[2].filename = "shot"

\* C19: validate_actions returns the validated variants of all the records,
\* in order, or fails naming the first offending index and returns no list; a
\* record with an unknown or a missing action tag always makes it fail.
C19_AllOrNothing ==
    LET v == validate_actions(actions_data)
        n == Len(actions_data)
        bad == {i \in 1..n : ~ValidateRecord(actions_data[i]).ok}
    IN  /\ bad = {} =>
              /\ v.ok
              /\ Len(v.value) = n
              /\ \A i \in 1..n : v.value[i] = ValidateRecord(actions_data[i]).value
        /\ bad # {} =>
              /\ ~v.ok
              /\ v.value = <<>>
              /\ v.index \in bad
              /\ \A j \in bad : v.index <= j
        /\ \A i \in 1..n :
              (\/ "action" \notin DOMAIN actions_data[i]
               \/ actions_data[i].action \notin action_models) => ~v.ok
        /\ pc # "start" =>
              /\ actions = v.value
              /\ v.ok <=> pc # "returned" \/ context # "none"

C19_Witness ==
    /\ pc = "returned"
    /\ context = "none"
    /\ actions = <<>>
    /\ Len(actions_data) = 3
    /\ ValidateRecord(actions_data[1]).ok
    /\ IsRecord(actions_data[2], "hover")
    /\ "action" \notin DOMAIN actions_data[3]
    /\ validate_actions(actions_data).index = 2

\* C20: a BookFlight action never brings a failure into the loop of the
\* executor: whatever the booking flow does, the action is reported Success
\* (handle_booking true) or Warning (false), and the actions after it are
\* still attempted.
C20_BookingNeverFailsTheLoop ==
    /\ \A i \in 1..Len(log) :
           log[i].action = "book_flight" => log[i].outcome \in {"Success", "Warning"}
    /\ pc \in {"booking", "booked"} =>
           (idx <= Len(actions) /\ actions[idx].action = "book_flight" /\ Len(log) = idx - 1)
    /\ (pc = "loop" /\ Len(log) > 0 /\ log[Len(log)].action = "book_flight") =>
           (idx = Len(log) + 1 /\ stages = <<>>)
    /\ LoopOver => \A i \in 1..Len(actions) :
           actions[i].action = "book_flight" =>
               (Len(log) = Len(actions) /\ log[i].action = "book_flight")

C20_Witness ==
    /\ LoopOver
    /\ Len(log) = 2
    /\ log[1] = [action |-> "book_flight", outcome |-> "Warning"]
    /\ log[2] = [action |-> "fill", outcome |-> "Success"]

------------------------------------------------------------------------------
(* Properties of main and of the executor's use of its plan (Spec).         *)

\* C21: a plan that fails validation is surfaced to the caller of
\* execute_actions as an error: once the call is over for a plan holding an
\* invalid record, main prints the error line, never the success line.
C21_RejectedPlanIsAnError ==
    (HasInvalidRecord /\ pc \in {"returned", "raised"})
        => main_report(pc) = "Error during execution"

\* C24: execute_actions never mutates the plan it is given: no step of the
\* call, validation included, changes the caller's list or a record in it.
C24_PlanIsNotMutated == [][actions_data' = actions_data]_vars

\* a call that is over for a plan whose screenshot name validation completes
\* with ".png", with one failed action behind it
C24_Witness ==
    /\ pc = "returned"
    /\ context = "closed"
    /\ \E i \in 1..Len(actions_data) :
         /\ IsRecord(actions_data[i], "screenshot")
         /\ actions[i].filename # actions_data[i].filename
    /\ \E i \in 1..Len(log) : log[i].outcome = "Failed"

\* C26: the actions of a validated plan are attempted in insertion order,
\* each exactly once and one at a time: the log always holds exactly the
\* actions before the current one, in plan order; a step either leaves the
\* log and the index alone or completes the current action, adding its one
\* entry and moving to the next index; the validated plan never changes; and
\* once the call is over nothing runs again.
C26_InOrderOnceEach ==
    /\ [](pc \in {"loop", "booking", "booked", "finally"} =>
            /\ Len(log) = idx - 1
            /\ idx <= Len(actions) + 1
            /\ \A i \in 1..Len(log) : log[i].action = actions[i].action)
    /\ [][ /\ \/ idx' = idx /\ log' = log
              \/ /\ idx <= Len(actions)
                 /\ idx' = idx + 1
                 /\ Len(log') = Len(log) + 1
                 /\ SubSeq(log', 1, Len(log)) = log
                 /\ log'[Len(log')].action = actions[idx].action
           /\ pc \notin {"start"} => actions' = actions
           /\ pc \in {"returned", "raised"} => pc' = pc ]_vars

\* a plan of three actions whose first failed and whose third has been
\* attempted all the same
C26_Witness ==
    /\ pc = "loop"
    /\ Len(actions) = 3
    /\ idx = 4
    /\ log[1].outcome = "Failed"
    /\ log[3].outcome = "Success"

\* C27: the stages of the booking flow are entered in the fixed order form
\* open, origin, destination, date, modal close, submit, results: the stages
\* entered so far are always a prefix of that order, so that none is entered
\* twice, none before its predecessor, and none after a later one.
C27_StagesInFixedOrder ==
    /\ Len(stages) <= 7
    /\ \A k \in 1..Len(stages) :
         stages[k].stage =
           <<"open", "origin", "destination", "date", "modal", "submit", "results">>[k]
    /\ pc = "booked" =>
         \/ Len(stages) = 7
         \/ (Len(stages) \in 1..3 /\ ~stages[Len(stages)].ok)

\* a flow that went through all seven stages, its date stage having failed
C27_Witness ==
    /\ pc = "booked"
    /\ Len(stages) = 7
    /\ ~stages[4].ok
    /\ stages[7].stage = "results"

------------------------------------------------------------------------------
(* Properties of the compiler's return value (SpecCompile).                 *)

\* C22: parse_command returns None or a non-empty plan, never an empty one:
\* also when the intent matched and its handler built nothing.
C22_NoneOrNonEmptyPlan ==
    cpc = "done" =>
        /\ plan = NoPlan \/ (plan.some /\ Len(plan.actions) >= 1)
        /\ plan = parse_command(command, now, later)
        /\ (intent.intent # None
            /\ HANDLER_REGISTRY(intent.intent, command_lower, intent, now, later) = <<>>)
               => plan = NoPlan

\* a fill command whose text has no " with " separator: the intent is fill,
\* the handler builds nothing
C22_Witness ==
    /\ cpc = "done"
    /\ intent.intent = "fill"
    /\ ~Contains(command_lower, " with ")
    /\ handle_fill(command_lower, intent) = <<>>
    /\ plan = NoPlan

------------------------------------------------------------------------------
(* Properties of the city stages and of the date stage (SpecBooking).       *)

CityStageOver == flow.stage \in {"origin", "destination"} /\ flow.pc = "over"

\* the suggestions were shown with a first option to look at
SuggestionsListed ==
    flow.shown /\ flow.options # <<>> /\ flow.options[1].visible

MatchingOptions ==
    {i \in 1..Len(flow.options) : PatternMatches(flow.city, flow.options[i].text)}

StrategyElement(k) ==
    CASE k = 1 -> flow.elems.label
      [] k = 2 -> AriaElement(flow.elems)
      [] k = 3 -> flow.elems.placeholder

\* C28: the input of a city stage is resolved by the strategies accessible
\* label, aria-label selector, placeholder, in that order: the strategies
\* tried are 1, 2, ... up to the one used, the one used is the first whose
\* element is visible and enabled, and when none is the stage raises without
\* any interaction with an input.
C28_FirstReadyStrategy ==
    (flow.stage \in {"origin", "destination"} /\ flow.pc # "resolve") =>
        /\ flow.tried = [i \in 1..Len(flow.tried) |-> i]
        /\ flow.input # 0 =>
             /\ Len(flow.tried) = flow.input
             /\ StrategyElement(flow.input) = "ready"
             /\ \A j \in 1..(flow.input - 1) : StrategyElement(j) # "ready"
        /\ flow.input = 0 =>
             /\ Len(flow.tried) = 3
             /\ \A j \in 1..3 : StrategyElement(j) # "ready"
             /\ flow.pc = "over"
             /\ flow.result = "raised"
             /\ ~flow.interacted
        /\ flow.interacted => flow.input # 0

\* the label is visible but disabled, the aria-label combobox too, and the
\* placeholder input, the third strategy, is the one typed into
C28_Witness ==
    /\ flow.stage = "origin"
    /\ flow.elems.label = "disabled"
    /\ flow.elems.combobox = "disabled"
    /\ flow.elems.placeholder = "ready"
    /\ flow.input = 3
    /\ flow.tried = <<1, 2, 3>>
    /\ flow.interacted

\* C29: for every suggestion list holding a matching option, the option
\* selected is the first matching one in list order, whatever its position
\* (stated for lists whose options are all visible and all take the click).
C29_FirstMatchIsClicked ==
    (/\ CityStageOver
     /\ SuggestionsListed
     /\ \A i \in 1..Len(flow.options) : flow.options[i].visible /\ flow.options[i].clicks
     /\ MatchingOptions # {}) =>
        LET first == CHOOSE i \in MatchingOptions : \A j \in MatchingOptions : i <= j
        IN  flow.selected = first /\ flow.clicks = <<first>>

\* C30: in the date stage, when the typed date is not echoed by the field
\* and the calendar opens and comes to show the target month with the day
\* cell visible, the day cell is clicked and the stage returns True; and the
\* calendar is never opened before the date has been typed.
C30_CalendarSelectsDay ==
    (flow.stage = "date" /\ flow.pc = "over") =>
        /\ (/\ flow.page.inputs # {}
            /\ ~flow.page.echo
            /\ flow.page.calendar
            /\ flow.page.label = "month year"
            /\ flow.page.buttons = "visible"
            /\ toordinal(flow.page.target) > toordinal(Today)
            /\ MonthIndex(flow.page.target) <= MonthIndex(Today) + MaxPaging
            /\ flow.page.day_visible) =>
               /\ flow.result = "True"
               /\ \E i \in 1..Len(flow.events) : flow.events[i] = "click day"
        /\ \A i \in 1..Len(flow.events) :
             flow.events[i] = "open calendar" =>
                \E j \in 1..(i - 1) : flow.events[j] = "type"

------------------------------------------------------------------------------
(* Properties of the booking builder and of website identification          *)
(* (SpecCompile), and of the booking verdict (Spec).                        *)

FidelityCities == {"mumbai", "delhi", "new york", "san francisco"}
FidelityDates == {"2026-12-25", "2027-01-02"}
FlightWordings == {" a flight from ", " flights from ", " flight from "}

\* C36: '<search|book|find> [a] flight(s) from X to Y on D', with D an ISO
\* date and X, Y of one or several words, compiles to one BookFlight with
\* origin X, destination Y (after alias mapping) and date D.
C36_BookingExtraction ==
    \A v \in BookingVerbs, w \in FlightWordings, x \in FidelityCities,
       y \in FidelityCities, d \in FidelityDates :
        (/\ cpc = "done"
         /\ command_lower = v \o w \o x \o " to " \o y \o " on " \o d)
        => /\ plan.some
           /\ plan.actions = <<[action |-> "book_flight",
                                from |-> Get(CITY_MAPPING, x, x),
                                to |-> Get(CITY_MAPPING, y, y),
                                date |-> d]>>

\* the keys of the site table that occur in the command, by position
KeysInCommand ==
    {i \in 1..Len(WEBSITE_MAP) : Contains(command_lower, WEBSITE_MAP[i][1])}

\* C38: the website identified for a search command is the first key of the
\* site table, in declaration order, that occurs in the command, wherever it
\* occurs and whatever its length: a key that contains an earlier-declared
\* key is never the one returned, and the plan's goto URL is the earlier
\* key's.
C38_FirstDeclaredKey ==
    (cpc = "done" /\ intent.intent = "search") =>
        /\ KeysInCommand = {} <=> intent.website = None
        /\ \A i \in KeysInCommand :
             (\A j \in KeysInCommand : i <= j) =>
                /\ intent.website = WEBSITE_MAP[i][1]
                /\ plan.some
                /\ plan.actions[1] = [action |-> "goto", value |-> WEBSITE_MAP[i][2]]
        /\ \A i \in 1..Len(WEBSITE_MAP) :
             (\E j \in 1..(i - 1) : Contains(WEBSITE_MAP[i][1], WEBSITE_MAP[j][1]))
                => intent.website # WEBSITE_MAP[i][1]

\* 'amazon.com' occurs in the command and 'amazon', declared before it, is
\* the website: the plan goes to amazon.in
C38_Witness ==
    /\ cpc = "done"
    /\ intent.intent = "search"
    /\ Contains(command_lower, "amazon.com")
    /\ intent.website = "amazon"
    /\ plan.actions[1].value = "https://www.amazon.in"

\* C37: a Success verdict of a booking implies that every stage of the flow
\* succeeded: the cities were set, the date stage reported success and the
\* submit control was activated.
C37_SuccessMeansAllStagesSucceeded ==
    (pc = "booked" /\ handle_booking_result(stages)) =>
        \A k \in 1..Len(stages) : stages[k].ok

------------------------------------------------------------------------------
(* Properties of the paging loops of the date stage (SpecBooking,           *)
(* SpecDateFair).                                                           *)

PagingClicks == {"next", "previous", "header next", "header previous"}

\* C31: every click that pages the calendar, in either paging loop of the
\* date stage, is on the next-month button when the target date is after the
\* current date and on the previous-month button otherwise.
C31_PagingTowardsTarget ==
    flow.stage = "date" =>
        \A i \in 1..Len(flow.events) :
            flow.events[i] \in PagingClicks =>
                flow.events[i] \in
                    (IF toordinal(flow.page.target) > toordinal(Today)
                     THEN {"next", "header next"}
                     ELSE {"previous", "header previous"})

\* C35: the date stage of the booking flow comes to its end, whatever the
\* page does: no loop of it goes round for ever.
C35_DateStageEnds == <>(flow.pc = "over")

------------------------------------------------------------------------------
(* Properties of the submission stage and of the results stage              *)
(* (SpecBooking).                                                           *)

Strategies == <<"direct", "js", "dispatch">>

\* the place of a strategy in the fixed order, 0 for what is no strategy
StrategyRank(what) ==
    IF \E r \in 1..Len(Strategies) : Strategies[r] = what
    THEN CHOOSE r \in 1..Len(Strategies) : Strategies[r] = what
    ELSE 0

SubmitOver == flow.stage = "submit" /\ flow.pc = "over"

\* C32: on each control the strategies are attempted in the order direct
\* click, in-page click, click-event dispatch: a strategy is attempted only
\* after every earlier one was attempted on that control and failed, nothing
\* is attempted after a strategy went through, and a control found occluded
\* has the dialogs dismissed between that finding and its direct click.
C32_EscalationInFixedOrder ==
    SubmitOver =>
        LET ev == flow.events
            n == Len(ev)
        IN  /\ \A j \in 1..n :
                 StrategyRank(ev[j].what) > 0 =>
                    /\ \A r \in 1..(StrategyRank(ev[j].what) - 1) :
                          \E i \in 1..(j - 1) :
                             /\ ev[i].control = ev[j].control
                             /\ ev[i].what = Strategies[r]
                             /\ ~ev[i].ok
                    /\ \A i \in 1..(j - 1) :
                          (ev[i].control = ev[j].control /\ StrategyRank(ev[i].what) > 0)
                             => StrategyRank(ev[i].what) < StrategyRank(ev[j].what)
                    /\ ev[j].ok => \A i \in (j + 1)..n : StrategyRank(ev[i].what) = 0
            /\ \A i \in 1..n :
                 ev[i].what = "occluded" =>
                    /\ i + 2 <= n
                    /\ ev[i + 1] = Did(ev[i].control, "dismiss", TRUE)
                    /\ ev[i + 2].control = ev[i].control
                    /\ ev[i + 2].what = "direct"

\* an occluded first control on which only the dispatch goes through, after
\* which nothing more is tried
C32_Witness ==
    /\ SubmitOver
    /\ flow.result = "True"
    /\ flow.page[1].visible /\ flow.page[1].covered /\ flow.page[6].visible
    /\ \E i \in 1..Len(flow.events) :
          flow.events[i] = Did(1, "dispatch", TRUE) /\ i = Len(flow.events)

ResultsOver == flow.stage = "results" /\ flow.pc = "over"

MarkerVisible == \E k \in DOMAIN flow.page.markers : flow.page.markers[k] = "visible"

CardWithText == \E k \in DOMAIN flow.page.cards : flow.page.cards[k] = "content"

C34_ScreenshotInEveryCase ==
    ResultsOver => \E i \in 1..Len(flow.events) : flow.events[i] = "screenshot"

==============================================================================
